---- MODULE Spec2Model ----
(***************************************************************************)
(* A model of the PhotonBot session (bot/PhotonBot.js) and of the          *)
(* management endpoints that drive it (the express server).                *)
(*                                                                         *)
(* One bot is modelled.  Its fields are the record `bot`; every WebSocket  *)
(* the bot ever created is an entry of `sockets` (the code never drops a   *)
(* socket's handlers, so a socket that `bot` no longer points to still     *)
(* delivers its events to the same bot).  A handler is a function from a   *)
(* context (the mutable world plus a `thrown` flag) to a context: a step   *)
(* after an exception changes nothing, which is how a JavaScript throw     *)
(* leaves the assignments made before it in place.                         *)
(***************************************************************************)
EXTENDS Integers, Sequences, FiniteSets, TLC

\* ------------------------------------------------------------------ bounds
\* events (requests, socket events, timers) that changed the state, per run
MaxSteps == 8

\* events of two bots together, in a run in which both take part
MaxPairSteps == 6

\* ------------------------------------------------------- inbound messages
Tokens == {"t1"}
Addresses == {"a1"}
RoomNames == {"r1"}
ActorNrs == {5}

\* "absent" stands for a parameter the packet does not carry (undefined)
Absent == "absent"

\* a property that is present with value v, and absent ones (undefined) of the
\* three kinds of value: number, string, name
Some(v) == [has |-> TRUE, v |-> v]
NoNumber == [has |-> FALSE, v |-> 0]
NoString == [has |-> FALSE, v |-> ""]
NoName == [has |-> FALSE, v |-> <<>>]

\* value ?? dflt
Nullish(x, dflt) == IF x.has THEN x.v ELSE dflt

\* one entry of params[249] of a JoinGame response.  The key is the text
\* "<type> <digits>" ("int32 12" is type "int32", digits <<1, 2>>); the value is
\* the occupant's property map.  A name is a sequence of pieces: "<color>" for a
\* <color=#RRGGBB> tag, "</color>", "[tag]" for a bracketed clan tag, " " for
\* white space, anything else for plain text; kd is in tenths.
Occupant(type, digits, props) == [type |-> type, digits |-> digits, props |-> props]

Properties(name, rank, kd, team, kills, platform) ==
    [name |-> name, rank |-> rank, kd |-> kd, teamNumber |-> team,
     current_kills_in_killstreak |-> kills, platform |-> platform]

NoProperties == Properties(NoName, NoNumber, NoNumber, NoNumber, NoNumber, NoString)

Occupancies ==
    { << Occupant("int32", <<5>>,
                  Properties(Some(<<"Bob">>), Some(42), Some(15), Some(1), Some(3),
                             Some("PC"))),
         Occupant("string", <<>>, NoProperties),
         Occupant("int32", <<1, 2>>, NoProperties) >>,
      << Occupant("int32", <<9>>,
                  Properties(Some(<<"<color>", "[tag]", "</color>", "Eve", " ">>),
                             Some(7), Some(8), NoNumber, NoNumber, NoString)) >> }

\* messages on the lobby socket, as ProtocolReader.readPacket decodes them;
\* "Malformed" is a message it cannot decode
LobbyPackets ==
    {[code |-> "InitResponse"], [code |-> "Malformed"]}
    \cup {[code |-> "Authenticate", p221 |-> t, p222 |-> r] :
              t \in Tokens, r \in BOOLEAN}
    \cup {[code |-> "AppStats", debugMessage |-> d, p230 |-> a] :
              d \in {"", "Game does not exists"}, a \in Addresses \cup {Absent}}
    \cup {[code |-> "Other"]}

\* messages on the game socket
GamePackets ==
    {[code |-> "InitResponse"], [code |-> "Malformed"]}
    \cup {[code |-> "Authenticate"]}
    \cup {[code |-> "JoinGame", has249 |-> TRUE, p249 |-> o] : o \in Occupancies}
    \cup {[code |-> "JoinGame", has249 |-> FALSE, p249 |-> <<>>]}
    \cup {[code |-> "Event255", has249 |-> h, p254 |-> n] :
              h \in BOOLEAN, n \in ActorNrs \cup {0}}
    \cup {[code |-> "Other"]}

\* ------------------------------------------------------------------ state
VARIABLES
    bot,          \* the PhotonBot instance's fields
    sockets,      \* every WebSocket created so far, in creation order
    joins,        \* one record per joinRoom call: its promise and its timeout
    lobbyTimers,  \* pending setTimeout(..., 1000) callbacks of the lobby handler
    fetches,      \* game onmessage invocations suspended in await getAuthCode()
    sent,         \* packets handed to an open socket, oldest first
    lastEnum,     \* params[249] of the latest JoinGame response that had one
    peer,         \* a second PhotonBot instance of the same process
    client,       \* a PhotonClient, as connectToGameServer() makes one
    call,         \* a method applied to an argument by a test, with its result
    reply,        \* the latest response of the management surface
    steps,        \* events so far that changed the state
    deleted,      \* the bot was removed by DELETE /api/bots/:botId
    crashed       \* an uncaught exception ended the process

vars == <<bot, sockets, joins, lobbyTimers, fetches, sent, lastEnum, peer,
          client, call, reply, steps, deleted, crashed>>

\* ---------------------------------------------------------------- context
\* The mutable world a handler runs in.  strict: in this event the runtime takes
\* the failing branch of what depends on the installed ws release: send() on a
\* closed socket throws (older releases) instead of dropping the data, and
\* close() on a socket that is still connecting raises an 'error' event, for
\* which the bot registers no listener.
Ctx(strict) ==
    [bot |-> bot, sockets |-> sockets, joins |-> joins,
     lobbyTimers |-> lobbyTimers, fetches |-> fetches, sent |-> sent,
     lastEnum |-> lastEnum,
     thrown |-> FALSE, errorEvent |-> FALSE, strict |-> strict]

Throw(c) == [c EXCEPT !.thrown = TRUE]

Packet(s, name, arg, num) == [sock |-> s, pkt |-> name, arg |-> arg, num |-> num]

\* socket.send(buffer) of the ws library: s = 0 is an undefined socket
send(c, s, pkt) ==
    IF c.thrown THEN c
    ELSE IF s = 0 THEN Throw(c)
    ELSE IF c.sockets[s].state = "open"
         THEN [c EXCEPT !.sent = Append(@, pkt)]
    ELSE IF c.sockets[s].state = "connecting" THEN Throw(c)
    ELSE IF c.strict THEN Throw(c) ELSE c

\* socket.close() of the ws library.  why and by say, for the properties, which
\* code closed the socket ("handoff": a game socket's onopen, and then by is that
\* game socket; "delete": the DELETE endpoint; "remote": the server)
close(c, s, why, by) ==
    IF c.thrown \/ c.sockets[s].state = "closed" THEN c
    ELSE LET c1 == [c EXCEPT !.sockets[s].state = "closed",
                             !.sockets[s].closedBy = why,
                             !.sockets[s].closer = by]
         IN  IF c.sockets[s].state = "connecting" /\ c.strict
             THEN [c1 EXCEPT !.errorEvent = TRUE] ELSE c1

\* new WebSocket(url, "GpBinaryV16").  ticks and malformed count, for the
\* properties, the keep-alive timer firings and the undecodable messages of the
\* socket; tokens are the tokens of the Authenticate responses it received, and
\* idleAuth says that one of them was handled while no room name was set, and
\* scheduled counts the join-from-lobby timers that its messages started.
\* origin: the joinRoom call (lobby socket) or the lobby socket whose message
\* made the bot connect (game socket).
NewSocket(kind, origin) ==
    [kind |-> kind, state |-> "connecting", closedBy |-> "none", closer |-> 0,
     opened |-> FALSE, origin |-> origin, wrappers |-> {}, pingLoops |-> 0,
     ticks |-> 0, malformed |-> 0, tokens |-> {}, idleAuth |-> FALSE,
     scheduled |-> 0]

\* parseInt(this.lastActorNr.toString() + "001")
EntityId(c) == c.bot.lastActorNr.val * 1000 + 1

\* ------------------------------------------------------- outbound packets
\* this.lastActorNr += 1: a number is incremented; once the 255 handler stored a
\* string, += appends the character "1"
PlusOne(n) ==
    IF n.str THEN [str |-> TRUE, val |-> n.val * 10 + 1]
    ELSE [str |-> FALSE, val |-> n.val + 1]

sendPing(c, s) == send(c, s, Packet(s, "Ping", "", 0))

sendAuthParams(c) ==
    send(c, c.bot.lobbySocket, Packet(c.bot.lobbySocket, "LobbyAuth", "", 0))

sendGameAuth(c, token) ==
    LET c1 == send(c, c.bot.gameSocket, Packet(c.bot.gameSocket, "GameAuth", token, 0))
    IN  IF c1.thrown THEN c1 ELSE [c1 EXCEPT !.bot.authSent = TRUE]

sendJoinLobby(c, s) == send(c, s, Packet(s, "JoinLobby", "", 0))

sendJoinRoomWithProperties(c, roomName) ==
    send(c, c.bot.gameSocket, Packet(c.bot.gameSocket, "JoinRoomWithProperties", roomName, 0))

sendJoinNotify(c) ==
    send(c, c.bot.gameSocket, Packet(c.bot.gameSocket, "JoinNotify", "", 0))

sendAuthToken(c, token) ==
    send(c, c.bot.gameSocket, Packet(c.bot.gameSocket, "AuthCode", token, EntityId(c)))

idkWhatPacketThisIs(c) ==
    send(c, c.bot.gameSocket, Packet(c.bot.gameSocket, "Opaque", "", 0))

sendPlayerBodyPacket(c) ==
    LET g == c.bot.gameSocket
    IN  send(send(c, g, Packet(g, "PlayerBody", "", EntityId(c))),
             g, Packet(g, "PlayerBodyNotify", "", 0))

\* sendCraftedPacket as it would be if a status event that cannot be sent made
\* the session give up its room
sendCraftedPacketLeavingOnFailure(c, s) ==
    IF ~c.thrown /\ c.sockets[s].state # "open"
    THEN [c EXCEPT !.bot.isInRoom = FALSE, !.bot.isInGame = FALSE]
    ELSE send(c, s, Packet(s, "Crafted", "", 0))

sendCraftedPacket(c, s) == send(c, s, Packet(s, "Crafted", "", 0))

\* spawnPlayer as it would be if it took a new actor number for every spawn
spawnPlayerTakingNextActor(c) ==
    LET c1 == [c EXCEPT !.bot.lastActorNr = PlusOne(@)]
    IN  send(c1, c1.bot.gameSocket, Packet(c1.bot.gameSocket, "Spawn", "", EntityId(c1)))

spawnPlayer(c) ==
    send(c, c.bot.gameSocket, Packet(c.bot.gameSocket, "Spawn", "", EntityId(c)))

sendLeaveRoomPacket(c) ==
    send(c, c.bot.gameSocket, Packet(c.bot.gameSocket, "Leave", "", 0))

leaveRoom(c) == sendLeaveRoomPacket(c)

joinRoomFromLobby(c, roomName) ==
    send(c, c.bot.lobbySocket, Packet(c.bot.lobbySocket, "JoinGame", roomName, 0))

\* ----------------------------------------------------------------- joinRoom
\* async joinRoom(roomName), the account being generated when the bot was made:
\* the body runs synchronously up to the returned promise.  A joins record is the
\* promise (state), its setTimeout (timer) and, for the properties, whether the
\* session became joined while that timer was still pending (joined) and
\* whether an auth-code fetch failed while the promise was pending (fetchFailed).
joinRoom(c, roomName) ==
    LET s  == Len(c.sockets) + 1
        j  == Len(c.joins) + 1
        c1 == [c EXCEPT !.bot.gameRoomName = roomName,
                        !.bot.lastActorNr = PlusOne(@),
                        !.sockets = Append(@, NewSocket("lobby", j)),
                        !.bot.lobbySocket = s,
                        !.joins = Append(@, [state |-> "pending", timer |-> TRUE,
                                             room |-> roomName, joined |-> FALSE,
                                             fetchFailed |-> FALSE])]
        g  == c1.bot.gameSocket
    IN  IF g # 0 THEN [c1 EXCEPT !.sockets[g].wrappers = @ \cup {j}] ELSE c1

\* the setTimeout callback of joinRoom: reject(new Error("Connection timeout"))
joinTimeout(c, j) ==
    [c EXCEPT !.joins[j].timer = FALSE,
              !.joins[j].state = IF @ = "pending" THEN "timeout" ELSE @]

\* the wrapper joinRoom puts around the onmessage of the game socket that exists
\* when it is called: if (this.alreadyJoined) { clearTimeout(timeout); resolve(); }
joinWrapper(c, j) ==
    IF c.bot.alreadyJoined
    THEN [c EXCEPT !.joins[j].timer = FALSE,
                   !.joins[j].state = IF @ = "pending" THEN "resolved" ELSE @]
    ELSE c

RECURSIVE RunWrappers(_, _)
RunWrappers(c, js) ==
    IF js = {} THEN c
    ELSE LET j == CHOOSE x \in js : \A y \in js : x <= y
         IN  RunWrappers(joinWrapper(c, j), js \ {j})

\* ------------------------------------------------------------ room listing
\* A room name is a sequence of characters; "1" and "2" are its decimal digits.
Digits == {"1", "2"}

\* the bounds of \d{4,6}
MinIdDigits == 4
MaxIdDigits == 6

\* the digits \d{4,6} takes at position i of name: as many as there are, up to
\* MaxIdDigits
RECURSIVE DigitRun(_, _, _)
DigitRun(name, i, taken) ==
    IF taken < MaxIdDigits /\ i <= Len(name) /\ name[i] \in Digits
    THEN DigitRun(name, i + 1, taken + 1)
    ELSE taken

\* /\(#\d{4,6}\)/ tried at position i of name: the literals "(#", the digits,
\* giving them back one at a time down to MinIdDigits until ")" follows
MatchAt(name, i) ==
    /\ i + 1 <= Len(name)
    /\ name[i] = "(" /\ name[i + 1] = "#"
    /\ \E n \in MinIdDigits..DigitRun(name, i + 2, 0) :
          i + 2 + n <= Len(name) /\ name[i + 2 + n] = ")"

\* /\(#\d{4,6}\)/.test(key): the pattern is tried at every position
RegexTest(key) == \E i \in 1..Len(key) : MatchAt(key, i)

\* /^\(#\d{4,6}\)/.test(key): the pattern tied to the start of the name
RegexTestAtStart(key) == key # <<>> /\ MatchAt(key, 1)

\* filterRoomsWithIdOnly as it would be with the pattern tied to the start
filterRoomsWithIdAtStart(roomKeys) == SelectSeq(roomKeys, RegexTestAtStart)

\* filterRoomsWithIdOnly(roomKeys)
filterRoomsWithIdOnly(roomKeys) == SelectSeq(roomKeys, RegexTest)

\* ------------------------------------------------------------ lobby socket
\* new ProtocolReader(buffer).readPacket() on a message of socket s: a message
\* that cannot be decoded is a decode error handed to the caller, an exception
readPacket(c, s, p) ==
    IF p.code = "Malformed"
    THEN Throw([c EXCEPT !.sockets[s].malformed = @ + 1])
    ELSE c

\* connectToGameServer as it would be if it dropped the lobby socket at once,
\* without waiting for the game socket to open
connectToGameServerClosingLobby(c, l) ==
    IF c.thrown THEN c
    ELSE LET g  == Len(c.sockets) + 1
             c1 == [c EXCEPT !.sockets = Append(@, NewSocket("game", l)),
                             !.bot.gameSocket = g]
         IN  close(c1, c1.bot.lobbySocket, "handoff", g)

\* connectToGameServer(); l is the lobby socket whose message called it
connectToGameServer(c, l) ==
    IF c.thrown THEN c
    ELSE [c EXCEPT !.sockets = Append(@, NewSocket("game", l)),
                   !.bot.gameSocket = Len(c.sockets) + 1]

\* lobbySocket.onopen
lobbyOnopen(c) == sendPing(c, c.bot.lobbySocket)

\* lobbySocket.onmessage, the packet decoded; l is the socket that got the message
lobbyOnmessage(c, l, p) ==
    IF readPacket(c, l, p).thrown THEN readPacket(c, l, p)
    ELSE IF p.code = "InitResponse" THEN sendAuthParams(c)
    ELSE IF p.code = "Authenticate" THEN
        IF p.p222 /\ c.bot.isInRoom THEN c
        ELSE LET c0 == [c EXCEPT !.sockets[l].tokens = @ \cup {p.p221},
                                 !.sockets[l].idleAuth = @ \/ c.bot.gameRoomName = ""]
                 c1 == IF p.p222 /\ c0.bot.gameRoomName # ""
                       THEN [c0 EXCEPT !.bot.isInRoom = TRUE, !.lobbyTimers = @ + 1,
                                       !.sockets[l].scheduled = @ + 1]
                       ELSE c0
                 c2 == IF c1.bot.authToken = ""
                       THEN [c1 EXCEPT !.bot.authToken = p.p221] ELSE c1
             IN  sendJoinLobby(c2, c2.bot.lobbySocket)
    ELSE IF p.code = "AppStats" THEN
        IF p.debugMessage = "Game does not exists" THEN c
        ELSE IF c.bot.serverAddress = "" /\ p.p230 # Absent
             THEN connectToGameServer([c EXCEPT !.bot.serverAddress = p.p230], l)
             ELSE c
    ELSE c

\* the setTimeout(..., 1000) callback of the Authenticate branch
lobbyJoinTimer(c) ==
    joinRoomFromLobby([c EXCEPT !.lobbyTimers = @ - 1], c.bot.gameRoomName)

\* ------------------------------------------------------------- game socket
\* pingLoop(socket): two setInterval calls whose handles are dropped
pingLoop(c, s) ==
    IF c.thrown THEN c ELSE [c EXCEPT !.sockets[s].pingLoops = @ + 1]

\* gameSocket.onopen; g is the socket that opened
gameOnopen(c, g) ==
    LET c1 == close(c, c.bot.lobbySocket, "handoff", g)
        c2 == sendPing(c1, c1.bot.gameSocket)
    IN  pingLoop(c2, c2.bot.gameSocket)

\* parseInt of a string of decimal digits
RECURSIVE parseInt(_)
parseInt(digits) ==
    IF digits = <<>> THEN 0
    ELSE parseInt(SubSeq(digits, 1, Len(digits) - 1)) * 10 + digits[Len(digits)]

\* String.prototype.trim on a name: white space off both ends
RECURSIVE trim(_)
trim(name) ==
    IF name = <<>> THEN name
    ELSE IF Head(name) = " " THEN trim(Tail(name))
    ELSE IF name[Len(name)] = " " THEN trim(SubSeq(name, 1, Len(name) - 1))
    ELSE name

\* cleanUsername(rawName): drop every colour tag, then one leading clan tag, trim
cleanUsername(rawName) ==
    LET cleaned == SelectSeq(rawName, LAMBDA x : x \notin {"<color>", "</color>"})
    IN  trim(IF cleaned # <<>> /\ Head(cleaned) = "[tag]" THEN Tail(cleaned) ELSE cleaned)

\* the usrEntry made of one entry of params[249] with an "int32 ..." key; the
\* numbers of a property map are whole, so that parseInt leaves them as they are
Actor(o) ==
    [actorNr  |-> parseInt(o.digits),
     name     |-> cleanUsername(Nullish(o.props.name, <<"Unknown">>)),
     rank     |-> Nullish(o.props.rank, 0),
     kd       |-> Nullish(o.props.kd, 0),
     team     |-> Nullish(o.props.teamNumber, 0),
     kills    |-> Nullish(o.props.current_kills_in_killstreak, 0),
     platform |-> Nullish(o.props.platform, "Unknown")]

\* Roster as it would be if it made a record of every entry, whatever its key
RECURSIVE RosterOfEveryKey(_)
RosterOfEveryKey(occ) ==
    IF occ = <<>> THEN <<>> ELSE <<Actor(Head(occ))>> \o RosterOfEveryKey(Tail(occ))

\* the players pushed for one JoinGame response
RECURSIVE Roster(_)
Roster(occ) ==
    IF occ = <<>> THEN <<>>
    ELSE IF Head(occ).type = "int32"
         THEN <<Actor(Head(occ))>> \o Roster(Tail(occ))
         ELSE Roster(Tail(occ))

\* gameSocket.onmessage up to its await: the code 255 branch suspends in
\* getAuthCode() and leaves the rest of the handler in fetches, with the socket
\* and actor number of its packet; whenJoined and overtaken are kept for the
\* properties: alreadyJoined when the trigger arrived, and whether a later
\* message of the socket was handled before this one finished
gameOnmessage(c, g, p) ==
    IF readPacket(c, g, p).thrown THEN readPacket(c, g, p)
    ELSE IF p.code = "JoinGame" /\ p.has249 THEN
        IF c.bot.isInGame THEN [c EXCEPT !.lastEnum = p.p249]
        ELSE [c EXCEPT !.lastEnum = p.p249,
                       !.bot.isInGame = TRUE,
                       !.bot.players = @ \o Roster(p.p249)]
    ELSE IF p.code = "InitResponse" THEN sendGameAuth(c, c.bot.authToken)
    ELSE IF p.code = "Authenticate" THEN
        idkWhatPacketThisIs(sendJoinRoomWithProperties(c, c.bot.gameRoomName))
    ELSE IF p.code = "Event255" /\ p.has249 /\ p.p254 # 0 THEN
        [c EXCEPT !.fetches = Append(@, [sock |-> g, p254 |-> p.p254,
                                         overtaken |-> FALSE,
                                         whenJoined |-> c.bot.alreadyJoined])]
    ELSE c

\* record on the latest joinRoom call that the session became joined while the
\* call's timeout was still pending
MarkJoined(c) ==
    LET j == Len(c.joins)
    IN  IF j > 0 /\ c.joins[j].timer THEN [c EXCEPT !.joins[j].joined = TRUE] ELSE c

\* record on the latest joinRoom call, if its promise is still pending, that an
\* auth-code fetch of the session failed
MarkFetchFailed(c) ==
    LET j == Len(c.joins)
    IN  IF j > 0 /\ c.joins[j].state = "pending"
        THEN [c EXCEPT !.joins[j].fetchFailed = TRUE] ELSE c

\* the code 255 branch when await this.getAuthCode() throws: the async handler
\* ends there, its promise rejected
gameOnmessageAbort(c) == Throw(MarkFetchFailed(c))

\* the code 255 branch as it would be if it announced every session, whatever
\* showJoinMessageInChat says
gameOnmessageResumeAnnouncing(c, f, authCode) ==
    LET c1 == [c EXCEPT !.bot.lastActorNr = [str |-> TRUE, val |-> f.p254]]
        c2 == sendAuthToken(sendJoinNotify(c1), authCode)
    IN  IF c2.thrown \/ c2.bot.alreadyJoined THEN c2
        ELSE LET c3 == sendPlayerBodyPacket(c2)
             IN  IF c3.thrown THEN c3 ELSE MarkJoined([c3 EXCEPT !.bot.alreadyJoined = TRUE])

\* the code 255 branch as it would be if it sent its events before it recorded
\* the actor number of its packet
gameOnmessageResumeStaleActor(c, f, authCode) ==
    LET c1 == sendAuthToken(sendJoinNotify(c), authCode)
        c2 == IF c1.thrown THEN c1
              ELSE [c1 EXCEPT !.bot.lastActorNr = [str |-> TRUE, val |-> f.p254]]
    IN  IF c2.thrown \/ c2.bot.alreadyJoined THEN c2
        ELSE LET c3 == IF c2.bot.showJoinMessageInChat
                       THEN sendPlayerBodyPacket(c2) ELSE c2
             IN  IF c3.thrown THEN c3 ELSE MarkJoined([c3 EXCEPT !.bot.alreadyJoined = TRUE])

\* the code 255 branch after await this.getAuthCode() returned authCode
gameOnmessageResume(c, f, authCode) ==
    LET c1 == [c EXCEPT !.bot.lastActorNr = [str |-> TRUE, val |-> f.p254]]
        c2 == sendAuthToken(sendJoinNotify(c1), authCode)
    IN  IF c2.thrown \/ c2.bot.alreadyJoined THEN c2
        ELSE LET c3 == IF c2.bot.showJoinMessageInChat
                       THEN sendPlayerBodyPacket(c2) ELSE c2
             IN  IF c3.thrown THEN c3 ELSE MarkJoined([c3 EXCEPT !.bot.alreadyJoined = TRUE])

\* ------------------------------------------------------ management surface
\* POST /api/bots/:botId/leave-room, past its isInRoom/isInGame check; an
\* exception of leaveRoom() is caught by the endpoint, which then resets nothing
leaveRoomEndpoint(c) ==
    LET c1 == IF c.bot.gameSocket # 0 THEN leaveRoom(c) ELSE c
    IN  IF c1.thrown THEN c1
        ELSE [c1 EXCEPT !.bot.isInGame = FALSE, !.bot.isInRoom = FALSE,
                        !.bot.alreadyJoined = FALSE, !.bot.gameRoomName = "",
                        !.bot.serverAddress = "", !.bot.players = <<>>]

\* POST /api/bots/:botId/spawn
spawnEndpoint(c) == IF c.bot.isInRoom THEN spawnPlayer(c) ELSE c

\* a response of the management surface: the operation, the HTTP status and, for
\* the properties, whether the handler put a packet on the wire; turn alternates
\* from one response to the next, which tells two equal responses apart
Reply(op, status, wired) ==
    [op |-> op, status |-> status, wired |-> wired, turn |-> ~reply.turn]

\* the response of an endpoint whose try block ended in context c: res.json(...)
\* or, from the catch block, res.status(404)
Respond(op, c) ==
    IF c.thrown THEN Reply(op, 404, FALSE) ELSE Reply(op, 200, c.sent # sent)

\* DELETE /api/bots/:botId: close both sockets, forget the bot
deleteEndpoint(c) ==
    LET c1 == IF c.bot.lobbySocket # 0 THEN close(c, c.bot.lobbySocket, "delete", 0) ELSE c
    IN  IF c1.bot.gameSocket # 0 THEN close(c1, c1.bot.gameSocket, "delete", 0) ELSE c1

\* ---------------------------------------------------------------- actions
AuthCodes == {"code"}

\* the handler changed the bot, a socket, a promise or a timer, sent a packet,
\* suspended, or threw
Effect(c0, c) ==
    \/ c.bot # c0.bot \/ c.sockets # c0.sockets \/ c.joins # c0.joins
    \/ c.lobbyTimers # c0.lobbyTimers \/ c.fetches # c0.fetches
    \/ c.sent # c0.sent \/ c.thrown

\* what a handler leaves behind.  fatal: an exception of this handler is not
\* caught by anyone and ends the process, as does an 'error' event nobody hears
CommitStep(c, fatal, more) ==
    /\ bot' = c.bot
    /\ sockets' = c.sockets
    /\ joins' = c.joins
    /\ lobbyTimers' = c.lobbyTimers
    /\ fetches' = c.fetches
    /\ sent' = c.sent
    /\ lastEnum' = c.lastEnum
    /\ call' = call
    /\ peer' = peer
    /\ client' = client
    /\ crashed' = ((c.thrown /\ fatal) \/ c.errorEvent)
    /\ steps' = IF \/ c.bot # bot \/ c.sockets # sockets \/ c.joins # joins
                   \/ c.lobbyTimers # lobbyTimers \/ c.fetches # fetches
                   \/ c.sent # sent \/ c.lastEnum # lastEnum
                   \/ (c.thrown /\ fatal) \/ c.errorEvent
                   \/ more
                THEN steps + 1 ELSE steps

Commit(c, fatal) == CommitStep(c, fatal, FALSE)

\* runs in which the second bot takes part are followed for MaxPairSteps events
\* of the two bots together
Running ==
    /\ ~crashed /\ steps < MaxSteps
    /\ peer.steps > 0 => steps + peer.steps < MaxPairSteps

Opened(c, s) == [c EXCEPT !.sockets[s].state = "open", !.sockets[s].opened = TRUE]

RemoveAt(q, i) == SubSeq(q, 1, i - 1) \o SubSeq(q, i + 1, Len(q))

\* POST /api/bots/:botId/join-room with a non-blank roomName
JoinRoomReq(r) ==
    /\ Running /\ ~deleted
    /\ ~bot.isInRoom
    /\ Commit(joinRoom(Ctx(FALSE), r), FALSE)
    /\ reply' = Respond("join", joinRoom(Ctx(FALSE), r))
    /\ UNCHANGED deleted

\* POST /api/bots/:botId/leave-room
LeaveRoomReq ==
    /\ Running /\ ~deleted
    /\ bot.isInRoom \/ bot.isInGame
    /\ \E strict \in BOOLEAN :
          /\ CommitStep(leaveRoomEndpoint(Ctx(strict)), FALSE, TRUE)
          /\ reply' = Respond("leave", leaveRoomEndpoint(Ctx(strict)))
    /\ UNCHANGED deleted

\* POST /api/bots/:botId/spawn
SpawnReq ==
    /\ Running /\ ~deleted
    /\ \E strict \in BOOLEAN :
          /\ CommitStep(spawnEndpoint(Ctx(strict)), FALSE, TRUE)
          /\ reply' = Respond("spawn", spawnEndpoint(Ctx(strict)))
    /\ UNCHANGED deleted

\* PATCH /api/bots/:botId with showJoinMessageInChat in the body
patchEndpoint(c, b) == [c EXCEPT !.bot.showJoinMessageInChat = b]

PatchReq(b) ==
    /\ Running /\ ~deleted
    /\ CommitStep(patchEndpoint(Ctx(FALSE), b), FALSE, TRUE)
    /\ reply' = Reply("patch", 200, FALSE)
    /\ UNCHANGED deleted

\* DELETE /api/bots/:botId
DeleteReq ==
    /\ Running /\ ~deleted
    /\ \E strict \in BOOLEAN :
          CommitStep(deleteEndpoint(Ctx(strict)), FALSE, TRUE)
    /\ reply' = Reply("delete", 200, FALSE)
    /\ deleted' = TRUE

\* the 'open' event of a lobby socket
LobbyOpen(s) ==
    /\ Running
    /\ sockets[s].kind = "lobby" /\ sockets[s].state = "connecting"
    /\ \E strict \in BOOLEAN : Commit(lobbyOnopen(Opened(Ctx(strict), s)), TRUE)
    /\ UNCHANGED <<deleted, reply>>

\* a 'message' event of a lobby socket
LobbyMessage(s, p) ==
    /\ Running
    /\ sockets[s].kind = "lobby" /\ sockets[s].state = "open"
    /\ \E strict \in BOOLEAN : Commit(lobbyOnmessage(Ctx(strict), s, p), TRUE)
    /\ UNCHANGED <<deleted, reply>>

\* the 1 s timer of the lobby handler fires
LobbyTimer ==
    /\ Running
    /\ lobbyTimers > 0
    /\ \E strict \in BOOLEAN : Commit(lobbyJoinTimer(Ctx(strict)), TRUE)
    /\ UNCHANGED <<deleted, reply>>

\* the 30 s timer of a joinRoom call fires
JoinTimeout(j) ==
    /\ Running
    /\ joins[j].timer
    /\ Commit(joinTimeout(Ctx(FALSE), j), TRUE)
    /\ UNCHANGED <<deleted, reply>>

\* the 'open' event of a game socket
GameOpen(g) ==
    /\ Running
    /\ sockets[g].kind = "game" /\ sockets[g].state = "connecting"
    /\ \E strict \in BOOLEAN : Commit(gameOnopen(Opened(Ctx(strict), g), g), TRUE)
    /\ UNCHANGED <<deleted, reply>>

\* the handlers suspended in getAuthCode() when a later message was handled on
\* the same socket and had an effect
Overtake(c0, c, g) ==
    IF ~Effect(c0, c) \/ c.sockets[g].malformed # c0.sockets[g].malformed THEN c
    ELSE [c EXCEPT !.fetches =
            [i \in DOMAIN c.fetches |->
                IF i <= Len(c0.fetches) /\ c.fetches[i].sock = g
                THEN [c.fetches[i] EXCEPT !.overtaken = TRUE]
                ELSE c.fetches[i]]]

\* a 'message' event of a game socket: the async handler runs to its first await
\* (an exception in it is a rejected promise nobody handles: rej says whether
\* this Node release ends the process for it), then the joinRoom wrappers run
GameMessage(g, p) ==
    /\ Running
    /\ sockets[g].kind = "game" /\ sockets[g].state = "open"
    /\ \E strict, rej \in BOOLEAN :
          LET c0 == Ctx(strict)
              c1 == gameOnmessage(c0, g, p)
              c2 == RunWrappers([c1 EXCEPT !.thrown = FALSE], sockets[g].wrappers)
          IN  Commit(Overtake(c0, [c2 EXCEPT !.thrown = c1.thrown], g), rej)
    /\ UNCHANGED <<deleted, reply>>

\* getAuthCode() returns: the suspended handler goes on
FetchDone(i, authCode) ==
    /\ Running
    /\ i \in DOMAIN fetches
    /\ \E strict, rej \in BOOLEAN :
          LET c0 == [Ctx(strict) EXCEPT !.fetches = RemoveAt(@, i)]
          IN  Commit(gameOnmessageResume(c0, fetches[i], authCode), rej)
    /\ UNCHANGED <<deleted, reply>>

\* getAuthCode() throws (the fetch failed): the suspended handler rejects
FetchFail(i) ==
    /\ Running
    /\ i \in DOMAIN fetches
    /\ \E rej \in BOOLEAN :
          Commit(gameOnmessageAbort([Ctx(FALSE) EXCEPT !.fetches = RemoveAt(@, i)]), rej)
    /\ UNCHANGED <<deleted, reply>>

\* the 2 s interval of pingLoop(socket) fires
PingTick(s) ==
    /\ Running
    /\ sockets[s].pingLoops > 0
    /\ \E strict \in BOOLEAN :
          Commit(sendPing([Ctx(strict) EXCEPT !.sockets[s].ticks = @ + 1], s), TRUE)
    /\ UNCHANGED <<deleted, reply>>

\* the 5 s interval of pingLoop(socket) fires
CraftedTick(s) ==
    /\ Running
    /\ sockets[s].pingLoops > 0
    /\ \E strict \in BOOLEAN :
          Commit(sendCraftedPacket([Ctx(strict) EXCEPT !.sockets[s].ticks = @ + 1], s), TRUE)
    /\ UNCHANGED <<deleted, reply>>

\* the server closes an open socket; gameSocket.onclose only logs, the lobby
\* socket has no onclose
RemoteClose(s) ==
    /\ Running
    /\ sockets[s].state = "open"
    /\ Commit(close(Ctx(FALSE), s, "remote", 0), FALSE)
    /\ UNCHANGED <<deleted, reply>>

\* no method has been called by a test
NoCall == [fn |-> "none"]

\* new PhotonBot(), showJoinMessageInChat set by POST /api/bots
NewPhotonBot(b) ==
    [players |-> <<>>, lastActorNr |-> [str |-> FALSE, val |-> 1],
     showJoinMessageInChat |-> b, lobbySocket |-> 0, authSent |-> FALSE,
     gameSocket |-> 0, authToken |-> "", isInGame |-> FALSE,
     isInRoom |-> FALSE, alreadyJoined |-> FALSE,
     gameRoomName |-> "", serverAddress |-> ""]

\* the bot after new PhotonBot() and POST /api/bots, which sets
\* showJoinMessageInChat from the request and generates the account
Init ==
    /\ bot \in {NewPhotonBot(b) : b \in BOOLEAN}
    /\ peer = [bot |-> NewPhotonBot(TRUE), sockets |-> <<>>, joins |-> <<>>,
               lobbyTimers |-> 0, fetches |-> <<>>, sent |-> <<>>,
               lastEnum |-> <<>>, steps |-> 0, deleted |-> FALSE]
    /\ sockets = <<>>
    /\ joins = <<>>
    /\ lobbyTimers = 0
    /\ fetches = <<>>
    /\ sent = <<>>
    /\ lastEnum = <<>>
    /\ call = NoCall
    /\ client = [opParameters |-> <<>>, sends |-> 0,
                 packet |-> [op |-> "none", params |-> <<>>],
                 last |-> [fn |-> "none", args |-> <<>>], before |-> <<>>,
                 calls |-> 0]
    /\ reply = [op |-> "none", status |-> 0, wired |-> FALSE, turn |-> FALSE]
    /\ steps = 0
    /\ deleted = FALSE
    /\ crashed = FALSE

Next ==
    \/ \E r \in RoomNames : JoinRoomReq(r)
    \/ LeaveRoomReq
    \/ SpawnReq
    \/ \E b \in BOOLEAN : PatchReq(b)
    \/ DeleteReq
    \/ \E s \in DOMAIN sockets : LobbyOpen(s)
    \/ \E s \in DOMAIN sockets : \E p \in LobbyPackets : LobbyMessage(s, p)
    \/ LobbyTimer
    \/ \E j \in DOMAIN joins : JoinTimeout(j)
    \/ \E g \in DOMAIN sockets : GameOpen(g)
    \/ \E g \in DOMAIN sockets : \E p \in GamePackets : GameMessage(g, p)
    \/ \E i \in DOMAIN fetches : \E a \in AuthCodes : FetchDone(i, a)
    \/ \E i \in DOMAIN fetches : FetchFail(i)
    \/ \E s \in DOMAIN sockets : PingTick(s)
    \/ \E s \in DOMAIN sockets : CraftedTick(s)
    \/ \E s \in DOMAIN sockets : RemoteClose(s)

Spec == Init /\ [][Next]_vars

\* ------------------------------------------------------------ a second bot
\* botInstances holds any number of PhotonBot instances, all in one Node process.
\* peer is a second instance: the fields of `bot`, its sockets, promises, timers,
\* suspended handlers and packets, with the same handlers applied to them.
PeerCtx(strict) ==
    [bot |-> peer.bot, sockets |-> peer.sockets, joins |-> peer.joins,
     lobbyTimers |-> peer.lobbyTimers, fetches |-> peer.fetches,
     sent |-> peer.sent, lastEnum |-> peer.lastEnum,
     thrown |-> FALSE, errorEvent |-> FALSE, strict |-> strict]

PeerRunning == ~crashed /\ ~peer.deleted /\ steps + peer.steps < MaxPairSteps

\* what a handler of the second bot leaves behind: its own world, and the end of
\* the process both bots run in when its exception is caught by no one
PeerCommit(c, fatal, gone) ==
    /\ Effect(PeerCtx(FALSE), c) \/ c.lastEnum # peer.lastEnum \/ c.errorEvent \/ gone
    /\ peer' = [bot |-> c.bot, sockets |-> c.sockets, joins |-> c.joins,
                lobbyTimers |-> c.lobbyTimers, fetches |-> c.fetches,
                sent |-> c.sent, lastEnum |-> c.lastEnum,
                steps |-> peer.steps + 1, deleted |-> gone]
    /\ crashed' = ((c.thrown /\ fatal) \/ c.errorEvent)
    /\ UNCHANGED <<client, bot, sockets, joins, lobbyTimers, fetches, sent, lastEnum,
                   call, reply, steps, deleted>>

PeerJoinRoomReq(r) ==
    /\ PeerRunning /\ ~peer.bot.isInRoom
    /\ PeerCommit(joinRoom(PeerCtx(FALSE), r), FALSE, FALSE)

PeerLeaveRoomReq ==
    /\ PeerRunning /\ (peer.bot.isInRoom \/ peer.bot.isInGame)
    /\ \E strict \in BOOLEAN :
          PeerCommit(leaveRoomEndpoint(PeerCtx(strict)), FALSE, FALSE)

PeerSpawnReq ==
    /\ PeerRunning
    /\ \E strict \in BOOLEAN :
          PeerCommit(spawnEndpoint(PeerCtx(strict)), FALSE, FALSE)

PeerPatchReq(b) ==
    /\ PeerRunning
    /\ PeerCommit(patchEndpoint(PeerCtx(FALSE), b), FALSE, FALSE)

PeerDeleteReq ==
    /\ PeerRunning
    /\ \E strict \in BOOLEAN :
          PeerCommit(deleteEndpoint(PeerCtx(strict)), FALSE, TRUE)

PeerLobbyOpen(s) ==
    /\ PeerRunning
    /\ peer.sockets[s].kind = "lobby" /\ peer.sockets[s].state = "connecting"
    /\ \E strict \in BOOLEAN :
          PeerCommit(lobbyOnopen(Opened(PeerCtx(strict), s)), TRUE, FALSE)

PeerLobbyMessage(s, p) ==
    /\ PeerRunning
    /\ peer.sockets[s].kind = "lobby" /\ peer.sockets[s].state = "open"
    /\ \E strict \in BOOLEAN :
          PeerCommit(lobbyOnmessage(PeerCtx(strict), s, p), TRUE, FALSE)

PeerLobbyTimer ==
    /\ PeerRunning
    /\ peer.lobbyTimers > 0
    /\ \E strict \in BOOLEAN :
          PeerCommit(lobbyJoinTimer(PeerCtx(strict)), TRUE, FALSE)

PeerJoinTimeout(j) ==
    /\ PeerRunning
    /\ peer.joins[j].timer
    /\ PeerCommit(joinTimeout(PeerCtx(FALSE), j), TRUE, FALSE)

PeerGameOpen(g) ==
    /\ PeerRunning
    /\ peer.sockets[g].kind = "game" /\ peer.sockets[g].state = "connecting"
    /\ \E strict \in BOOLEAN :
          PeerCommit(gameOnopen(Opened(PeerCtx(strict), g), g), TRUE, FALSE)

PeerGameMessage(g, p) ==
    /\ PeerRunning
    /\ peer.sockets[g].kind = "game" /\ peer.sockets[g].state = "open"
    /\ \E strict, rej \in BOOLEAN :
          LET c0 == PeerCtx(strict)
              c1 == gameOnmessage(c0, g, p)
              c2 == RunWrappers([c1 EXCEPT !.thrown = FALSE], peer.sockets[g].wrappers)
          IN  PeerCommit(Overtake(c0, [c2 EXCEPT !.thrown = c1.thrown], g), rej, FALSE)

PeerFetchDone(i, authCode) ==
    /\ PeerRunning
    /\ i \in DOMAIN peer.fetches
    /\ \E strict, rej \in BOOLEAN :
          LET c0 == [PeerCtx(strict) EXCEPT !.fetches = RemoveAt(@, i)]
          IN  PeerCommit(gameOnmessageResume(c0, peer.fetches[i], authCode), rej, FALSE)

PeerFetchFail(i) ==
    /\ PeerRunning
    /\ i \in DOMAIN peer.fetches
    /\ \E rej \in BOOLEAN :
          PeerCommit(gameOnmessageAbort([PeerCtx(FALSE) EXCEPT !.fetches = RemoveAt(@, i)]),
                     rej, FALSE)

PeerPingTick(s) ==
    /\ PeerRunning
    /\ peer.sockets[s].pingLoops > 0
    /\ \E strict \in BOOLEAN :
          PeerCommit(sendPing([PeerCtx(strict) EXCEPT !.sockets[s].ticks = @ + 1], s),
                     TRUE, FALSE)

PeerCraftedTick(s) ==
    /\ PeerRunning
    /\ peer.sockets[s].pingLoops > 0
    /\ \E strict \in BOOLEAN :
          PeerCommit(sendCraftedPacket([PeerCtx(strict) EXCEPT !.sockets[s].ticks = @ + 1], s),
                     TRUE, FALSE)

PeerRemoteClose(s) ==
    /\ PeerRunning
    /\ peer.sockets[s].state = "open"
    /\ PeerCommit(close(PeerCtx(FALSE), s, "remote", 0), FALSE, FALSE)

NextPair ==
    \/ Next
    \/ \E r \in RoomNames : PeerJoinRoomReq(r)
    \/ PeerLeaveRoomReq
    \/ PeerSpawnReq
    \/ \E b \in BOOLEAN : PeerPatchReq(b)
    \/ PeerDeleteReq
    \/ \E s \in DOMAIN peer.sockets : PeerLobbyOpen(s)
    \/ \E s \in DOMAIN peer.sockets : \E p \in LobbyPackets : PeerLobbyMessage(s, p)
    \/ PeerLobbyTimer
    \/ \E j \in DOMAIN peer.joins : PeerJoinTimeout(j)
    \/ \E g \in DOMAIN peer.sockets : PeerGameOpen(g)
    \/ \E g \in DOMAIN peer.sockets : \E p \in GamePackets : PeerGameMessage(g, p)
    \/ \E i \in DOMAIN peer.fetches : \E a \in AuthCodes : PeerFetchDone(i, a)
    \/ \E i \in DOMAIN peer.fetches : PeerFetchFail(i)
    \/ \E s \in DOMAIN peer.sockets : PeerPingTick(s)
    \/ \E s \in DOMAIN peer.sockets : PeerCraftedTick(s)
    \/ \E s \in DOMAIN peer.sockets : PeerRemoteClose(s)

SpecPair == Init /\ [][NextPair]_vars

\* -------------------------------------------------------------- value codec
\* The codec (PhotonPacketBuilder's toBuffer, ProtocolReader) is written from the
\* format the specification gives: every value is a one-byte type tag followed
\* by a payload, multi-byte numbers big-endian.  A byte is a number in 0..255.

\* the fixed maximum of the nesting depth and of a declared element/pair count
\* (the specification asks for fixed maxima and names 32 and 10 000 as examples)
MaxDepth == 8
MaxCount == 10000

Types ==
    {"null", "boolean", "byte", "short", "integer", "long", "float", "double",
     "string", "byteArray", "array", "objectArray", "map", "vector"}

\* the element types of a homogeneous array
ElementTypes == {"integer", "string", "array"}

\* the type tags, those of the GpBinaryV16 protocol the sockets are opened with
TagOf(t) ==
    CASE t = "null" -> 42         [] t = "boolean" -> 111
      [] t = "byte" -> 98         [] t = "short" -> 107
      [] t = "integer" -> 105     [] t = "long" -> 108
      [] t = "float" -> 102       [] t = "double" -> 100
      [] t = "string" -> 115      [] t = "byteArray" -> 120
      [] t = "array" -> 121       [] t = "objectArray" -> 122
      [] t = "map" -> 104         [] t = "vector" -> 86

TypeOf(tag) ==
    IF \E t \in Types : TagOf(t) = tag
    THEN CHOOSE t \in Types : TagOf(t) = tag
    ELSE "illegal"

\* A Value is a pair of a type and what it holds: a number (byte, short, integer), a
\* BOOLEAN, the high 32 bits and the two low 16-bit words of a long, the sign,
\* exponent and mantissa of a float (the mantissa of a double in words of 4, 16,
\* 16 and 16 bits), the code points of a string, the bytes of a byte array, the
\* element type and the elements of an array, the elements of an object array,
\* the <<key, value>> pairs of a map, the three floats of a vector.
Value(t, v) == <<t, v>>

Null == Value("null", 0)

RECURSIVE Flatten(_)
Flatten(ss) == IF Len(ss) = 0 THEN <<>> ELSE Head(ss) \o Flatten(Tail(ss))

\* big-endian fixed-width numbers, two's complement
U16(n) == <<n \div 256, n % 256>>
I16(n) == <<(n \div 256) % 256, n % 256>>
I32(n) == <<(n \div 16777216) % 256, (n \div 65536) % 256, (n \div 256) % 256, n % 256>>

\* IEEE 754 single and double: sign, exponent, mantissa
F32(f) ==
    <<f.s * 128 + (f.e \div 2), (f.e % 2) * 128 + (f.m \div 65536),
      (f.m \div 256) % 256, f.m % 256>>

F64(d) ==
    <<d.s * 128 + (d.e \div 16), (d.e % 16) * 16 + d.m[1]>>
    \o U16(d.m[2]) \o U16(d.m[3]) \o U16(d.m[4])

\* UTF-8 of a code point below 2048
Utf8(cp) == IF cp < 128 THEN <<cp>> ELSE <<192 + (cp \div 64), 128 + (cp % 64)>>

\* the length of a string as it would be if it counted the UTF-8 bytes
StringByteLength(cps) == Len(Flatten([i \in DOMAIN cps |-> Utf8(cps[i])]))

\* the length written for a string: its element count, not its byte count
StringLength(cps) == Len(cps)

\* a value without its type tag
RECURSIVE Payload(_)
Payload(x) ==
    CASE x[1] = "null" -> <<>>
      [] x[1] = "boolean" -> <<IF x[2] THEN 1 ELSE 0>>
      [] x[1] = "byte" -> <<x[2]>>
      [] x[1] = "short" -> I16(x[2])
      [] x[1] = "integer" -> I32(x[2])
      [] x[1] = "long" -> I32(x[2].hi) \o U16(x[2].lo[1]) \o U16(x[2].lo[2])
      [] x[1] = "float" -> F32(x[2])
      [] x[1] = "double" -> F64(x[2])
      [] x[1] = "string" ->
            U16(StringLength(x[2])) \o Flatten([i \in DOMAIN x[2] |-> Utf8(x[2][i])])
      [] x[1] = "byteArray" -> I32(Len(x[2])) \o x[2]
      [] x[1] = "array" ->
            <<TagOf(x[2].et)>> \o U16(Len(x[2].elts))
            \o Flatten([i \in DOMAIN x[2].elts |-> Payload(x[2].elts[i])])
      [] x[1] = "objectArray" ->
            U16(Len(x[2]))
            \o Flatten([i \in DOMAIN x[2] |-> <<TagOf(x[2][i][1])>> \o Payload(x[2][i])])
      [] x[1] = "map" ->
            U16(Len(x[2]))
            \o Flatten([i \in DOMAIN x[2] |->
                           <<TagOf(x[2][i][1][1])>> \o Payload(x[2][i][1])
                           \o <<TagOf(x[2][i][2][1])>> \o Payload(x[2][i][2])])
      [] x[1] = "vector" -> F32(x[2][1]) \o F32(x[2][2]) \o F32(x[2][3])

\* encode(Value) -> bytes
encode(x) == <<TagOf(x[1])>> \o Payload(x)

\* the outcome of a decoding step: a value and the position after it, or a
\* decode error
Decoded(v, pos) == [ok |-> TRUE, v |-> v, pos |-> pos]
DecodeError == [ok |-> FALSE, v |-> Null, pos |-> 0]

\* n bytes are left in b from position pos on
Has(b, pos, n) == pos + n - 1 <= Len(b)

GetU16(b, pos) == b[pos] * 256 + b[pos + 1]
GetI16(b, pos) == IF b[pos] >= 128 THEN GetU16(b, pos) - 65536 ELSE GetU16(b, pos)
GetI32(b, pos) ==
    (IF b[pos] >= 128 THEN b[pos] - 256 ELSE b[pos]) * 16777216
    + b[pos + 1] * 65536 + b[pos + 2] * 256 + b[pos + 3]

GetF32(b, pos) ==
    [s |-> b[pos] \div 128,
     e |-> (b[pos] % 128) * 2 + (b[pos + 1] \div 128),
     m |-> (b[pos + 1] % 128) * 65536 + b[pos + 2] * 256 + b[pos + 3]]

GetF64(b, pos) ==
    [s |-> b[pos] \div 128,
     e |-> (b[pos] % 128) * 16 + (b[pos + 1] \div 16),
     m |-> <<b[pos + 1] % 16, GetU16(b, pos + 2), GetU16(b, pos + 4),
             GetU16(b, pos + 6)>>]

\* the depth test as it would be if it let one more level through
DepthOffByOne(depth) == depth <= MaxDepth + 1

\* the recursion depth is within the fixed maximum
DepthOK(depth) == depth <= MaxDepth

\* a declared element or pair count is within the fixed maximum and within what
\* is left of the buffer (an element takes at least one byte)
CountOK(count, left) == count <= MaxCount /\ count <= left

\* count characters of UTF-8 from position pos on
RECURSIVE DecodeChars(_, _, _, _)
DecodeChars(b, pos, count, acc) ==
    IF count = 0 THEN Decoded(Value("string", acc), pos)
    ELSE IF ~Has(b, pos, 1) THEN DecodeError
    ELSE IF b[pos] < 128
         THEN DecodeChars(b, pos + 1, count - 1, Append(acc, b[pos]))
    ELSE IF /\ b[pos] >= 192 /\ b[pos] < 224
            /\ Has(b, pos, 2) /\ b[pos + 1] \div 64 = 2
         THEN DecodeChars(b, pos + 2, count - 1,
                          Append(acc, (b[pos] - 192) * 64 + (b[pos + 1] % 64)))
    ELSE DecodeError

RECURSIVE DecodePayload(_, _, _, _)
RECURSIVE DecodeAt(_, _, _)
RECURSIVE DecodeMany(_, _, _, _, _, _)

\* count elements from position pos on: payloads of type kind, tagged values
\* (kind "any") or pairs of tagged values (kind "pair")
DecodeMany(kind, b, pos, count, depth, acc) ==
    IF count = 0 THEN Decoded(acc, pos)
    ELSE LET k == DecodeAt(b, pos, depth)
             r == IF kind = "any" THEN k
                  ELSE IF kind = "pair"
                       THEN IF ~k.ok THEN DecodeError
                            ELSE LET w == DecodeAt(b, k.pos, depth)
                                 IN  IF w.ok THEN Decoded(<<k.v, w.v>>, w.pos)
                                     ELSE DecodeError
                  ELSE DecodePayload(kind, b, pos, depth)
         IN  IF r.ok THEN DecodeMany(kind, b, r.pos, count - 1, depth, Append(acc, r.v))
             ELSE DecodeError

\* the payload of a value of type t at position pos, inside depth containers
DecodePayload(t, b, pos, depth) ==
    CASE t = "null" -> Decoded(Null, pos)
      [] t = "boolean" ->
            IF Has(b, pos, 1) THEN Decoded(Value(t, b[pos] # 0), pos + 1) ELSE DecodeError
      [] t = "byte" ->
            IF Has(b, pos, 1) THEN Decoded(Value(t, b[pos]), pos + 1) ELSE DecodeError
      [] t = "short" ->
            IF Has(b, pos, 2) THEN Decoded(Value(t, GetI16(b, pos)), pos + 2) ELSE DecodeError
      [] t = "integer" ->
            IF Has(b, pos, 4) THEN Decoded(Value(t, GetI32(b, pos)), pos + 4) ELSE DecodeError
      [] t = "long" ->
            IF Has(b, pos, 8)
            THEN Decoded(Value(t, [hi |-> GetI32(b, pos),
                                   lo |-> <<GetU16(b, pos + 4), GetU16(b, pos + 6)>>]),
                         pos + 8)
            ELSE DecodeError
      [] t = "float" ->
            IF Has(b, pos, 4) THEN Decoded(Value(t, GetF32(b, pos)), pos + 4) ELSE DecodeError
      [] t = "double" ->
            IF Has(b, pos, 8) THEN Decoded(Value(t, GetF64(b, pos)), pos + 8) ELSE DecodeError
      [] t = "string" ->
            IF Has(b, pos, 2) /\ GetU16(b, pos) <= Len(b) - (pos + 1)
            THEN DecodeChars(b, pos + 2, GetU16(b, pos), <<>>)
            ELSE DecodeError
      [] t = "byteArray" ->
            IF Has(b, pos, 4) /\ GetI32(b, pos) >= 0 /\ Has(b, pos + 4, GetI32(b, pos))
            THEN Decoded(Value(t, SubSeq(b, pos + 4, pos + 3 + GetI32(b, pos))),
                         pos + 4 + GetI32(b, pos))
            ELSE DecodeError
      [] t = "array" ->
            IF /\ DepthOK(depth + 1) /\ Has(b, pos, 3)
               /\ TypeOf(b[pos]) \in ElementTypes
               /\ CountOK(GetU16(b, pos + 1), Len(b) - (pos + 2))
            THEN LET r == DecodeMany(TypeOf(b[pos]), b, pos + 3, GetU16(b, pos + 1),
                                     depth + 1, <<>>)
                 IN  IF r.ok
                     THEN Decoded(Value(t, [et |-> TypeOf(b[pos]), elts |-> r.v]), r.pos)
                     ELSE DecodeError
            ELSE DecodeError
      [] t \in {"objectArray", "map"} ->
            IF /\ DepthOK(depth + 1) /\ Has(b, pos, 2)
               /\ CountOK(GetU16(b, pos), Len(b) - (pos + 1))
            THEN LET r == DecodeMany(IF t = "map" THEN "pair" ELSE "any", b, pos + 2,
                                     GetU16(b, pos), depth + 1, <<>>)
                 IN  IF r.ok THEN Decoded(Value(t, r.v), r.pos) ELSE DecodeError
            ELSE DecodeError
      [] t = "vector" ->
            IF Has(b, pos, 12)
            THEN Decoded(Value(t, <<GetF32(b, pos), GetF32(b, pos + 4), GetF32(b, pos + 8)>>),
                         pos + 12)
            ELSE DecodeError
      [] OTHER -> DecodeError

\* a tagged value at position pos
DecodeAt(b, pos, depth) ==
    IF Has(b, pos, 1) THEN DecodePayload(TypeOf(b[pos]), b, pos + 1, depth)
    ELSE DecodeError

\* decode(bytes) -> (Value, bytesConsumed), or a decode error
decode(bytes) ==
    LET r == DecodeAt(bytes, 1, 0)
    IN  IF r.ok THEN [ok |-> TRUE, v |-> r.v, bytesConsumed |-> r.pos - 1]
        ELSE [ok |-> FALSE, error |-> "DecodeError"]

\* ------------------------------------------------- methods called by tests
\* A test constructs a session, hands one input to one method or handler of the
\* fresh session, and looks at the outcome; `call` holds the input and outcome.
MaxOccupants == 2

TestProperties ==
    { NoProperties,
      Properties(Some(<<"Bob">>), Some(42), Some(15), Some(1), Some(3), Some("PC")),
      Properties(Some(<<"[tag]", "Bob">>), NoNumber, NoNumber, NoNumber, NoNumber, NoString),
      Properties(Some(<<"<color>", "[tag]", "</color>", " ", "Eve", " ">>),
                 Some(7), Some(8), NoNumber, NoNumber, NoString),
      Properties(NoName, NoNumber, NoNumber, Some(2), Some(4), NoString),
      Properties(NoName, Some(0), Some(0), NoNumber, NoNumber, Some("Mobile")) }

TestOccupants ==
    { Occupant(k[1], k[2], pr) :
          k \in {<<"int32", <<5>>>>, <<"int32", <<1, 2>>>>, <<"string", <<5>>>>},
          pr \in TestProperties }

TestOccupancies ==
    UNION { [1..n -> TestOccupants] : n \in 0..MaxOccupants }

\* a JoinGame response with parameter 249 = occ is handled by a fresh session
JoinResponseOnFresh(occ) ==
    /\ call = NoCall
    /\ call' = [fn |-> "JoinGame", arg |-> occ,
                result |-> gameOnmessage(Ctx(FALSE), 1,
                               [code |-> "JoinGame", has249 |-> TRUE,
                                p249 |-> occ]).bot.players]
    /\ UNCHANGED <<client, bot, sockets, joins, lobbyTimers, fetches, sent, lastEnum,
                   peer, reply, steps, deleted, crashed>>

MaxRooms == 2

\* n digits
DigitString(n) == [k \in 1..n |-> IF k % 2 = 1 THEN "1" ELSE "2"]

\* room names around a room id: something before it, "(#", three to seven
\* digits, ")" or another character; and names with no "(#" at all
TestRoomNames ==
    { before \o <<"(", "#">> \o DigitString(n) \o after :
          before \in {<<>>, <<"a", " ">>, <<"(", "#", "1">>},
          n \in 3..7,
          after \in {<<")">>, <<"x">>} }
    \cup { <<>>, <<"a">>, <<"(">> \o DigitString(4) \o <<")">> }

TestListings == UNION { [1..n -> TestRoomNames] : n \in 0..MaxRooms }

\* filterRoomsWithIdOnly is called with the room names of a listing
FilterRooms(roomKeys) ==
    /\ call = NoCall
    /\ call' = [fn |-> "filterRoomsWithIdOnly", arg |-> roomKeys,
                result |-> filterRoomsWithIdOnly(roomKeys)]
    /\ UNCHANGED <<client, bot, sockets, joins, lobbyTimers, fetches, sent, lastEnum,
                   peer, reply, steps, deleted, crashed>>

\* bounds of the codec tests: elements of a container, bytes of a buffer
MaxElements == 2
MaxBytes == 3

\* all sequences over S of length up to n
SeqsUpTo(S, n) == UNION { [1..k -> S] : k \in 0..n }

\* floats: zero, one, a denormal, the largest finite, the infinities, two NaNs
Zero32 == [s |-> 0, e |-> 0, m |-> 0]
NaN32 == [s |-> 0, e |-> 255, m |-> 4194304]
Infinity32 == [s |-> 0, e |-> 255, m |-> 0]

TestFloats ==
    { Zero32, NaN32, Infinity32, [s |-> 1, e |-> 255, m |-> 0],
      [s |-> 1, e |-> 255, m |-> 1], [s |-> 0, e |-> 127, m |-> 0],
      [s |-> 0, e |-> 0, m |-> 1], [s |-> 0, e |-> 254, m |-> 8388607] }

TestDoubles ==
    { [s |-> 0, e |-> 0, m |-> <<0, 0, 0, 0>>],
      [s |-> 0, e |-> 2047, m |-> <<8, 0, 0, 0>>],
      [s |-> 1, e |-> 2047, m |-> <<0, 0, 0, 1>>],
      [s |-> 0, e |-> 2047, m |-> <<0, 0, 0, 0>>],
      [s |-> 1, e |-> 2047, m |-> <<0, 0, 0, 0>>],
      [s |-> 1, e |-> 1023, m |-> <<15, 65535, 65535, 65535>>] }

TestIntegers ==
    {-2147483647 - 1, -65537, -1, 0, 1, 255, 256, 65536, 16777216, 2147483647}

TestStrings ==
    { <<>>, <<97>>, <<97, 98>>, <<233>>, <<97, 233, 98>>, <<2047, 128>>, <<0>> }

TestLeaves ==
    {Null}
    \cup {Value("boolean", x) : x \in BOOLEAN}
    \cup {Value("byte", x) : x \in {0, 1, 127, 128, 255}}
    \cup {Value("short", x) : x \in {-32768, -1, 0, 1, 258, 32767}}
    \cup {Value("integer", x) : x \in TestIntegers}
    \cup {Value("long", [hi |-> h, lo |-> l]) :
              h \in {-2147483647 - 1, -1, 0, 2147483647},
              l \in {<<0, 0>>, <<1, 256>>, <<65535, 65535>>}}
    \cup {Value("float", x) : x \in TestFloats}
    \cup {Value("double", x) : x \in TestDoubles}
    \cup {Value("string", x) : x \in TestStrings}
    \cup {Value("byteArray", x) : x \in {<<>>, <<0>>, <<255, 1>>}}
    \cup {Value("vector", <<x, y, Zero32>>) : x, y \in {Zero32, NaN32, Infinity32}}

\* what the containers of the tests are made of
SomeLeaves ==
    { Null, Value("boolean", TRUE), Value("byte", 255), Value("integer", -1),
      Value("string", <<97, 233>>), Value("float", NaN32) }

SomeKeys == { Value("byte", 0), Value("integer", 256), Value("string", <<97>>) }

IntegerArrays ==
    { Value("array", [et |-> "integer", elts |-> e]) :
          e \in SeqsUpTo({Value("integer", x) : x \in {-1, 0, 65536}}, MaxElements) }

StringArrays ==
    { Value("array", [et |-> "string", elts |-> e]) :
          e \in SeqsUpTo({Value("string", x) : x \in {<<>>, <<97, 233>>}}, MaxElements) }

FlatContainers ==
    IntegerArrays \cup StringArrays
    \cup { Value("objectArray", e) : e \in SeqsUpTo(SomeLeaves, MaxElements) }
    \cup { Value("map", e) : e \in SeqsUpTo(SomeKeys \X SomeLeaves, MaxElements) }

SomeContainers ==
    { Value("array", [et |-> "integer", elts |-> <<Value("integer", 65536)>>]),
      Value("array", [et |-> "string", elts |-> <<>>]),
      Value("objectArray", <<Null, Value("string", <<233>>)>>),
      Value("map", << <<Value("byte", 0), Value("float", NaN32)>> >>) }

NestedContainers ==
    { Value("array", [et |-> "array", elts |-> e]) :
          e \in SeqsUpTo(IntegerArrays, MaxElements) }
    \cup { Value("objectArray", e) : e \in SeqsUpTo(SomeContainers, MaxElements) }
    \cup { Value("map", e) : e \in SeqsUpTo(SomeKeys \X SomeContainers, MaxElements) }

\* hash tables nested n levels below the outer one, each level under the key
\* byte(i), as sendEdgeCasePacket builds them
RECURSIVE Nest(_)
Nest(n) ==
    IF n = 0 THEN Value("map", <<>>)
    ELSE Value("map", << <<Value("byte", n % 256), Nest(n - 1)>> >>)

\* the encoding of Nest(n), written level by level: five bytes for each
\* level that holds another one, three for the innermost
NestBytes(n) ==
    [i \in 1..(5 * n + 3) |->
        IF i > 5 * n
        THEN <<TagOf("map"), 0, 0>>[i - 5 * n]
        ELSE <<TagOf("map"), 0, 1, TagOf("byte"),
               (n - ((i - 1) \div 5)) % 256>>[((i - 1) % 5) + 1]]

TestValues ==
    TestLeaves \cup FlatContainers \cup NestedContainers
    \cup { Nest(n) : n \in {1, 2, MaxDepth - 2, MaxDepth - 1} }

\* a value is encoded and the bytes are decoded
RoundTrip(x) ==
    /\ call = NoCall
    /\ call' = [fn |-> "roundTrip", arg |-> x, bytes |-> encode(x),
                result |-> decode(encode(x))]
    /\ UNCHANGED <<client, bot, sockets, joins, lobbyTimers, fetches, sent, lastEnum,
                   peer, reply, steps, deleted, crashed>>

\* the proper prefixes of a buffer
Prefixes(b) == { SubSeq(b, 1, n) : n \in 0..(Len(b) - 1) }

\* buffers a hostile peer may send: nests around the maximum depth, the 50
\* levels of sendEdgeCasePacket(3) and 1000 levels; headers that declare more
\* elements than the maximum or than the buffer holds; truncated encodings; and
\* every short string of tags and small numbers
TestBuffers ==
    { NestBytes(n) : n \in {1, MaxDepth - 1, MaxDepth, MaxDepth + 1, 50, 1000} }
    \cup { <<TagOf("array"), TagOf("integer")>> \o U16(65000) \o <<0, 0, 0, 0, 0, 0>>,
           <<TagOf("array"), TagOf("integer")>> \o U16(2) \o I32(7),
           <<TagOf("objectArray")>> \o U16(MaxCount + 1)
               \o [i \in 1..(MaxCount + 1) |-> TagOf("null")],
           <<TagOf("map")>> \o U16(MaxCount + 1)
               \o [i \in 1..(2 * MaxCount + 2) |-> TagOf("null")] }
    \cup UNION { Prefixes(encode(x)) : x \in SomeLeaves \cup SomeContainers }
    \cup SeqsUpTo({0, 1, 255, TagOf("null"), TagOf("string"), TagOf("array"),
                   TagOf("objectArray"), TagOf("map"), TagOf("integer")}, MaxBytes)

\* a buffer is decoded
DecodeBuffer(b) ==
    /\ call = NoCall
    /\ call' = [fn |-> "decode", arg |-> b, result |-> decode(b)]
    /\ UNCHANGED <<client, bot, sockets, joins, lobbyTimers, fetches, sent, lastEnum,
                   peer, reply, steps, deleted, crashed>>

\* ------------------------------------------------------------ PhotonClient
\* The client keeps one Map, opParameters, which every operation fills and hands
\* to SendOperation.  A Map is held as the sequence of its <<key, value>> pairs
\* in insertion order; the keys are the names of the parameter codes, and for
\* the numeric keys of sendEdgeCasePacket(1) their decimal digits.
EventCaching ==
    [DoNotCache |-> 0, MergeCache |-> 1, ReplaceCache |-> 2, RemoveCache |-> 3,
     AddToRoomCache |-> 4, AddToRoomCacheGlobal |-> 5, RemoveFromRoomCache |-> 6,
     RemoveFromRoomCacheForActorsLeft |-> 7, SliceIncreaseIndex |-> 10,
     SliceSetIndex |-> 11, SlicePurgeIndex |-> 12, SlicePurgeUpToIndex |-> 13]

ReceiverGroup == [Others |-> 0, All |-> 1, MasterClient |-> 2]

\* a JavaScript value: what typeof, Number.isInteger and Array.isArray tell of
\* it, and its content.  "fraction" is a number that is no integer (NaN and the
\* infinities included), "other" a value of any further type, held as the
\* characters of String(value)
Js(tag, v) == <<tag, v>>

JsNull == Js("null", 0)

JsUndefined == Js("undefined", 0)

\* new RaiseEventOptions() with some fields assigned; TargetActors is null or an
\* array of actor numbers
RaiseEventOptions(caching, actors, group, receivers, forward) ==
    Js("options",
    [CachingOption |-> caching, TargetActors |-> actors, InterestGroup |-> group,
     Receivers |-> receivers,
     Flags |-> [HttpForward |-> forward, WebhookFlags |-> 0]])

\* PhotonPacketBuilder.types.intArray / integerArray, stringArray, hashTable
intArray(items) ==
    Value("array", [et |-> "integer",
                    elts |-> [i \in DOMAIN items |-> Value("integer", items[i][2])]])

stringArray(items) ==
    Value("array", [et |-> "string",
                    elts |-> [i \in DOMAIN items |-> Value("string", items[i][2])]])

\* convertToPhotonType(value).  Array.prototype.every is true of an empty array
RECURSIVE convertToPhotonType(_)
convertToPhotonType(value) ==
    CASE value[1] \in {"null", "undefined"} -> Null
      [] value[1] = "string" -> Value("string", value[2])
      [] value[1] = "boolean" -> Value("boolean", value[2])
      [] value[1] = "integer" -> Value("integer", value[2])
      [] value[1] = "fraction" -> Value("float", value[2])
      [] value[1] = "array" ->
           IF \A i \in DOMAIN value[2] : value[2][i][1] = "integer"
           THEN intArray(value[2])
           ELSE IF Len(value[2]) = 0 THEN Value("objectArray", <<>>)
           ELSE IF value[2][1][1] = "string" THEN stringArray(value[2])
           ELSE Value("objectArray",
                      [i \in DOMAIN value[2] |-> convertToPhotonType(value[2][i])])
      [] value[1] = "object" ->
           Value("map", [i \in DOMAIN value[2] |->
                            <<Value("string", value[2][i][1]),
                              convertToPhotonType(value[2][i][2])>>])
      [] OTHER -> Value("string", value[2])

\* new PhotonClient(socket).  sends counts the calls of this.socket.send, packet
\* is the request handed to the latest of them, last is the latest call of an
\* operation with its arguments, and before is the map as that call found it
NoPacket == [op |-> "none", params |-> <<>>]

NewPhotonClient ==
    [opParameters |-> <<>>, sends |-> 0, packet |-> NoPacket,
     last |-> [fn |-> "none", args |-> <<>>], before |-> <<>>, calls |-> 0]

\* Map.prototype.set: a key that is present keeps its place
MapSet(m, k, v) ==
    IF \E i \in DOMAIN m : m[i][1] = k
    THEN [i \in DOMAIN m |-> IF m[i][1] = k THEN <<k, v>> ELSE m[i]]
    ELSE Append(m, <<k, v>>)

set(pc, k, v) == [pc EXCEPT !.opParameters = MapSet(@, k, v)]

clear(pc) == [pc EXCEPT !.opParameters = <<>>]

MapHas(m, k) == \E i \in DOMAIN m : m[i][1] = k

\* SendOperation(operationCode, parameters, sendOptions): one request with the
\* parameters of the map, in its order, handed to this.socket.send
SendOperation(pc, operationCode, parameters) ==
    [pc EXCEPT !.packet = [op |-> operationCode, params |-> parameters],
               !.sends = @ + 1]

\* the addressing of an event as it would be if the interest group came before
\* the target actors
AddressingGroupFirst(p, o) ==
    IF o.InterestGroup # 0
    THEN set(p, "Group", Value("byte", o.InterestGroup))
    ELSE IF o.TargetActors[1] # "null"
    THEN set(p, "ActorList", intArray(o.TargetActors[2]))
    ELSE IF o.Receivers # ReceiverGroup.Others
    THEN set(p, "ReceiverGroup", Value("byte", o.Receivers))
    ELSE p

\* the if / else if chain of the default case: target actors, else a non-zero
\* interest group, else receivers other than Others
Addressing(p, o) ==
    IF o.TargetActors[1] # "null"
    THEN set(p, "ActorList", intArray(o.TargetActors[2]))
    ELSE IF o.InterestGroup # 0
    THEN set(p, "Group", Value("byte", o.InterestGroup))
    ELSE IF o.Receivers # ReceiverGroup.Others
    THEN set(p, "ReceiverGroup", Value("byte", o.Receivers))
    ELSE p

\* OpRaiseEvent after this.opParameters.clear(): the parameters it sets and
\* the one SendOperation call of each of its paths
RaiseEventParameters(p0, eventCode, customEventContent, raiseEventOptions) ==
    LET given == raiseEventOptions[1] # "null"
        o  == raiseEventOptions[2]
        p1 == IF given /\ o.CachingOption # EventCaching.DoNotCache
              THEN set(p0, "Cache", Value("byte", o.CachingOption)) ELSE p0
        p2 == IF ~given THEN p1
              ELSE IF o.CachingOption = EventCaching.RemoveFromRoomCache
                   THEN IF o.TargetActors[1] # "null"
                        THEN set(p1, "ActorList", intArray(o.TargetActors[2]))
                        ELSE p1
              ELSE LET q == Addressing(p1, o)
                   IN  IF o.Flags.HttpForward
                       THEN set(q, "EventForward", Value("byte", o.Flags.WebhookFlags))
                       ELSE q
        p3 == set(p2, "Code", Value("byte", eventCode))
        p4 == IF customEventContent[1] \notin {"null", "undefined"}
              THEN set(p3, "Data", convertToPhotonType(customEventContent))
              ELSE p3
    IN  IF given /\ o.CachingOption \in
              {EventCaching.SliceSetIndex, EventCaching.SlicePurgeIndex,
               EventCaching.SlicePurgeUpToIndex, EventCaching.SliceIncreaseIndex,
               EventCaching.RemoveFromRoomCacheForActorsLeft}
        THEN SendOperation(p1, "RaiseEvent", p1.opParameters)
        ELSE SendOperation(p4, "RaiseEvent", p4.opParameters)

\* OpRaiseEvent as it would be if it did not clear the map it reuses
OpRaiseEventKeepingParameters(pc, eventCode, customEventContent, raiseEventOptions) ==
    RaiseEventParameters(pc, eventCode, customEventContent, raiseEventOptions)

\* OpRaiseEvent(eventCode, customEventContent, raiseEventOptions, sendOptions)
OpRaiseEvent(pc, eventCode, customEventContent, raiseEventOptions) ==
    RaiseEventParameters(clear(pc), eventCode, customEventContent, raiseEventOptions)

\* { type: 110, data: [...] }: an integer array written without the builder
Raw110(data) == <<"raw", [type |-> 110, data |-> data]>>

\* TransferOwnership(viewID, playerID)
TransferOwnership(pc, viewID, playerID) ==
    LET p1 == set(clear(pc), "Code", Value("byte", 210))
        p2 == set(p1, "Data", Raw110(<<Js("integer", viewID), Js("integer", playerID)>>))
        p3 == set(p2, "Cache", Value("byte", EventCaching.AddToRoomCache))
        p4 == set(p3, "ReceiverGroup", Value("byte", ReceiverGroup.All))
    IN  SendOperation(p4, "RaiseEvent", p4.opParameters)

\* the hash tables of sendEdgeCasePacket(3), level i holding the next one under
\* the key byte(i): held as the number of their levels
NestedHashTables(n) == <<"map", [levels |-> n]>>

ExtremeParameters == 100
NestedLevels == 50
Doublings == 10

\* the code units of problemChars
problemChars == <<0, 31, 127, 128, 159, 55296, 57343, 65534, 65535>>

RECURSIVE Pow2(_)
Pow2(n) == IF n = 0 THEN 1 ELSE 2 * Pow2(n - 1)

largeString ==
    [i \in 1..(Len(problemChars) * Pow2(Doublings)) |->
        problemChars[((i - 1) % Len(problemChars)) + 1]]

\* Number.MAX_SAFE_INTEGER, 2^53 - 1, which no 32-bit integer holds
MaxSafeInteger == [pow |-> 53, minus |-> 1]

\* sendEdgeCasePacket(testType): this.opParameters = new Map(), then one of five
\* packets; any other testType leaves the switch without sending
sendEdgeCasePacket(pc, testType) ==
    LET p0 == clear(pc)
    IN  CASE testType = 1 ->
               LET p == [p0 EXCEPT !.opParameters =
                            [i \in 1..ExtremeParameters |->
                                <<ToString(i - 1), Value("integer", i - 1)>>]]
               IN  SendOperation(p, "RaiseEvent", p.opParameters)
          [] testType = 2 ->
               LET p == set(set(p0, "Code", Value("byte", 210)), "Data",
                            Raw110(<<Js("fraction", "NaN"), Js("fraction", "Infinity")>>))
               IN  SendOperation(p, "RaiseEvent", p.opParameters)
          [] testType = 3 ->
               LET p == set(set(p0, "Code", Value("byte", 200)), "Data",
                            NestedHashTables(NestedLevels))
               IN  SendOperation(p, "RaiseEvent", p.opParameters)
          [] testType = 4 ->
               LET p1 == set(p0, "Code", Value("byte", 200))
                   p2 == set(p1, "Cache", Value("byte", EventCaching.RemoveFromRoomCache))
                   p3 == set(p2, "ReceiverGroup", Value("byte", ReceiverGroup.All))
                   p4 == set(p3, "Group", Value("byte", 255))
                   p5 == set(p4, "EventForward", Value("byte", 1))
                   p6 == set(p5, "CacheSliceIndex", Value("integer", MaxSafeInteger))
               IN  SendOperation(p6, "RaiseEvent", p6.opParameters)
          [] testType = 5 ->
               LET p == set(set(p0, "Code", Value("byte", 200)), "Data",
                            Value("string", largeString))
               IN  SendOperation(p, "RaiseEvent", p.opParameters)
          [] OTHER -> p0

\* arguments of convertToPhotonType
TestJsLeaves ==
    { JsNull, JsUndefined, Js("string", <<97>>), Js("boolean", TRUE),
      Js("integer", 7), Js("fraction", NaN32), Js("other", <<49, 110>>) }

TestJsArrays ==
    { Js("array", e) : e \in SeqsUpTo(TestJsLeaves, MaxElements) }

TestJsValues ==
    TestJsLeaves \cup TestJsArrays
    \cup { Js("array", <<a, b>>) : a \in TestJsArrays, b \in {Js("integer", 7)} }
    \cup { Js("object", << <<(<<107>>), v>> >>) : v \in TestJsLeaves }
    \cup { Js("array", << Js("object", <<>>), Js("string", <<97>>) >>) }

\* convertToPhotonType is applied to a value
Convert(value) ==
    /\ call = NoCall
    /\ call' = [fn |-> "convertToPhotonType", arg |-> value,
                result |-> convertToPhotonType(value)]
    /\ UNCHANGED <<client, bot, sockets, joins, lobbyTimers, fetches, sent, lastEnum,
                   peer, reply, steps, deleted, crashed>>

\* the test is over: the next one starts from a session of its own
TestDone ==
    /\ call # NoCall
    /\ call' = NoCall
    /\ UNCHANGED <<client, bot, sockets, joins, lobbyTimers, fetches, sent, lastEnum,
                   peer, reply, steps, deleted, crashed>>

NextCalls ==
    \/ call = NoCall /\ \E occ \in TestOccupancies : JoinResponseOnFresh(occ)
    \/ call = NoCall /\ \E roomKeys \in TestListings : FilterRooms(roomKeys)
    \/ call = NoCall /\ \E x \in TestValues : RoundTrip(x)
    \/ call = NoCall /\ \E b \in TestBuffers : DecodeBuffer(b)
    \/ call = NoCall /\ \E value \in TestJsValues : Convert(value)
    \/ TestDone

SpecCalls == Init /\ [][NextCalls]_vars

\* ------------------------------------------- operations of one PhotonClient
\* sequences of up to MaxCalls operations on the same client
MaxCalls == 3

EventCodes == {200}

TestContents == { JsNull, JsUndefined, Js("integer", 7) }

TestActors == { JsNull, Js("array", <<Js("integer", 1)>>) }

TestCachings ==
    { EventCaching.DoNotCache, EventCaching.AddToRoomCache,
      EventCaching.RemoveFromRoomCache, EventCaching.SliceSetIndex }

TestOptions ==
    { JsNull }
    \cup { RaiseEventOptions(c, a, g, r, FALSE) :
               c \in TestCachings, a \in TestActors, g \in {0, 3},
               r \in {ReceiverGroup.Others, ReceiverGroup.All} }
    \cup { RaiseEventOptions(EventCaching.DoNotCache, a, g, r, TRUE) :
               a \in TestActors, g \in {0, 3},
               r \in {ReceiverGroup.Others, ReceiverGroup.All} }
    \cup { RaiseEventOptions(c, JsNull, 0, ReceiverGroup.MasterClient, FALSE) :
               c \in {EventCaching.RemoveFromRoomCacheForActorsLeft,
                      EventCaching.SliceIncreaseIndex} }
    \cup { RaiseEventOptions(EventCaching.DoNotCache, Js("array", <<>>), 3,
                             ReceiverGroup.All, FALSE) }

\* the documented test types of sendEdgeCasePacket
TestTypes == 1..5

\* an operation was called on the client and left it as pc
ClientStep(pc, fn, args) ==
    /\ client.calls < MaxCalls
    /\ client' = [pc EXCEPT !.last = [fn |-> fn, args |-> args],
                            !.before = client.opParameters,
                            !.calls = @ + 1]
    /\ UNCHANGED <<bot, sockets, joins, lobbyTimers, fetches, sent, lastEnum,
                   peer, call, reply, steps, deleted, crashed>>

RaiseEventCall(eventCode, customEventContent, raiseEventOptions) ==
    ClientStep(OpRaiseEvent(client, eventCode, customEventContent, raiseEventOptions),
               "OpRaiseEvent", <<eventCode, customEventContent, raiseEventOptions>>)

TransferOwnershipCall(viewID, playerID) ==
    ClientStep(TransferOwnership(client, viewID, playerID),
               "TransferOwnership", <<viewID, playerID>>)

EdgeCaseCall(testType) ==
    ClientStep(sendEdgeCasePacket(client, testType), "sendEdgeCasePacket", <<testType>>)

NextClient ==
    \/ \E e \in EventCodes, x \in TestContents, o \in TestOptions :
           RaiseEventCall(e, x, o)
    \/ \E v \in {1001}, q \in {0, 2} : TransferOwnershipCall(v, q)
    \/ \E k \in TestTypes : EdgeCaseCall(k)

SpecClient == Init /\ [][NextClient]_vars

\* ------------------------------------------------------------- properties
\* packets named name sent so far on socket s
Count(s, name) ==
    Cardinality({i \in DOMAIN sent : sent[i].sock = s /\ sent[i].pkt = name})

\* packets sent so far that carry the join forward
JoinTraffic(log) ==
    Cardinality({i \in DOMAIN log :
        log[i].pkt \in {"JoinGame", "JoinRoomWithProperties", "JoinNotify",
                        "AuthCode", "PlayerBody"}})

OpenSockets(ss, kind) ==
    {s \in DOMAIN ss : ss[s].kind = kind /\ ss[s].state = "open"}

Idle(b) == ~b.isInRoom /\ ~b.isInGame /\ ~b.alreadyJoined

\* C1: the assigned-actor-number trigger is idempotent: on every game channel the
\* join-notify event, the auth-code event and the presence event are each sent at
\* most once, and no auth-code fetch is started for a trigger that arrives when
\* the session has already joined.
C1_TriggerIsIdempotent ==
    /\ \A g \in DOMAIN sockets :
          /\ Count(g, "JoinNotify") <= 1
          /\ Count(g, "AuthCode") <= 1
          /\ Count(g, "PlayerBody") <= 1
    /\ \A i \in DOMAIN fetches : ~fetches[i].whenJoined

\* C2: a joinRoom call whose session became joined before its 30 s timeout fired
\* is never rejected with the timeout error.
C2_JoinedCallNotTimedOut ==
    \A j \in DOMAIN joins : joins[j].joined => joins[j].state # "timeout"

\* C3: when the latest joinRoom call has failed with the timeout error and no
\* server address was received, no channel is open and the session is Idle.
C3_TimeoutLeavesNoOpenChannel ==
    (/\ joins # <<>>
     /\ joins[Len(joins)].state = "timeout"
     /\ bot.serverAddress = "")
    => (/\ \A s \in DOMAIN sockets : sockets[s].state # "open"
        /\ Idle(bot))

\* C4: once the latest joinRoom call has failed with the timeout error, a step
\* that is not a new joinRoom call opens no channel, sends no join-from-lobby,
\* join-room, join-notify, auth-code or presence packet, and sets neither
\* isInGame nor alreadyJoined.
C4_NoJoinProgressAfterTimeout ==
    [][(/\ joins # <<>>
        /\ joins[Len(joins)].state = "timeout"
        /\ joins' = joins)
       => (/\ Len(sockets') = Len(sockets)
           /\ JoinTraffic(sent') = JoinTraffic(sent)
           /\ (bot'.isInGame => bot.isInGame)
           /\ (bot'.alreadyJoined => bot.alreadyJoined))]_vars

\* C5: the phase never runs ahead of the triggers received: a server address is
\* recorded (and the game channel opened) only after a lobby authenticate
\* response recorded the token, and the roster and the in-game and joined flags
\* are set only after the join-room request that answers the game authenticate
\* response was sent.
C5_NoPhaseAdvanceOutOfOrder ==
    /\ (bot.serverAddress # "" \/ bot.gameSocket # 0) => bot.authToken # ""
    /\ (bot.isInGame \/ bot.alreadyJoined \/ bot.players # <<>>)
          => \E i \in DOMAIN sent : sent[i].pkt = "JoinRoomWithProperties"

\* C6: game-channel packets are handled one after the other: no handler that is
\* suspended in the auth-code fetch has had a later packet of its channel
\* handled, with an effect, before it finished.
C6_GamePacketsNotInterleaved ==
    \A i \in DOMAIN fetches : ~fetches[i].overtaken

\* C7: a lobby channel closed by the handoff was closed by a game channel whose
\* open event has occurred, and while a game channel is still connecting, the
\* lobby channel that handed over to it has not been closed by the session.
C7_LobbyClosedAfterGameOpen ==
    /\ \A s \in DOMAIN sockets :
          sockets[s].closedBy = "handoff" =>
              /\ sockets[s].kind = "lobby"
              /\ sockets[s].closer \in DOMAIN sockets
              /\ sockets[sockets[s].closer].kind = "game"
              /\ sockets[sockets[s].closer].opened
    /\ \A g \in DOMAIN sockets :
          (sockets[g].kind = "game" /\ sockets[g].state = "connecting") =>
              /\ sockets[sockets[g].origin].kind = "lobby"
              /\ sockets[sockets[g].origin].closedBy \in {"none", "remote"}

\* C7 witness: the handoff has closed a lobby channel and the game channel is open
C7_Witness ==
    \E s, g \in DOMAIN sockets :
        /\ sockets[s].closedBy = "handoff"
        /\ sockets[g].kind = "game" /\ sockets[g].state = "open"
        /\ sockets[g].origin = s

\* C8: once a handoff has happened, the session never has a lobby channel and a
\* game channel open at the same time.
C8_ChannelsNeverBothOpen ==
    (\E s \in DOMAIN sockets : sockets[s].closedBy = "handoff")
    => (OpenSockets(sockets, "lobby") = {} \/ OpenSockets(sockets, "game") = {})

\* C9: a leave request served while the session is joined sends the leave
\* request on the game channel, leaves no channel open, clears room name, server
\* address and roster and resets the flags.
C9_LeaveClosesAndResets ==
    [][(bot.alreadyJoined /\ bot.gameRoomName # "" /\ bot'.gameRoomName = "")
       => (/\ Count(bot.gameSocket, "Leave")' = Count(bot.gameSocket, "Leave") + 1
           /\ \A s \in DOMAIN sockets' : sockets'[s].state # "open"
           /\ Idle(bot')
           /\ bot'.serverAddress = "" /\ bot'.players = <<>>)]_vars

\* C10: no keep-alive timer fires for a channel that is closed.
C10_NoTickAfterClose ==
    [][\A s \in DOMAIN sockets :
          sockets[s].state = "closed" => sockets'[s].ticks = sockets[s].ticks]_vars

\* keep-alive ticks of socket s whose send put nothing on the wire: all ticks
\* less the probes (the one of onopen aside) and status events that were sent
FailedTicks(s) ==
    sockets[s].ticks - (Count(s, "Ping") - sockets[s].pingLoops) - Count(s, "Crafted")

\* C11: a keep-alive timer firing (probe or status event), whether or not its
\* send puts a packet on the wire, changes no field of the session, no channel
\* (other than the count of ticks), and leaves nothing pending: no promise, timer
\* or suspended handler is created or settled.
C11_TickChangesNoSessionState ==
    [][(\E s \in DOMAIN sockets : sockets'[s].ticks # sockets[s].ticks)
       => (/\ bot' = bot
           /\ joins' = joins /\ fetches' = fetches /\ lobbyTimers' = lobbyTimers
           /\ DOMAIN sockets' = DOMAIN sockets
           /\ \A s \in DOMAIN sockets :
                 sockets'[s] = [sockets[s] EXCEPT !.ticks = sockets'[s].ticks])]_vars

\* C11 witness: a tick fired on a channel in a room session and its send failed
C11_Witness ==
    \E s \in DOMAIN sockets :
        /\ sockets[s].pingLoops > 0 /\ FailedTicks(s) > 0
        /\ bot.isInRoom

\* C12: the roster is replaced on each join response that enumerates occupants:
\* while the session is in game the roster is exactly the occupants of the most
\* recent enumeration, and a session that is not in game has an empty roster.
C12_RosterIsLatestEnumeration ==
    /\ bot.isInGame => bot.players = Roster(lastEnum)
    /\ ~bot.isInGame => bot.players = <<>>

\* the position in occ of its k-th entry with an actor-number key
NthActorKey(occ, k) ==
    CHOOSE i \in DOMAIN occ :
        /\ occ[i].type = "int32"
        /\ Cardinality({j \in 1..i : occ[j].type = "int32"}) = k

\* the number a key of one or two digits spells
KeyNumber(o) ==
    IF Len(o.digits) = 1 THEN o.digits[1] ELSE 10 * o.digits[1] + o.digits[2]

\* C13: after a join response enumerating occupants is handled by a fresh session
\* the roster has one record per entry with an actor-number key, in order, and
\* none for the other entries; each record carries the number its key spells
\* and the occupant's rank, kill/death ratio, team, killstreak progress, (cleaned)
\* name and platform, with 0 and "Unknown" for the properties that are absent.
C13_RosterDecodesOccupants ==
    call.fn = "JoinGame" =>
        LET occ == call.arg
            res == call.result
        IN  /\ Len(res) = Cardinality({i \in DOMAIN occ : occ[i].type = "int32"})
            /\ \A k \in DOMAIN res :
                  LET o == occ[NthActorKey(occ, k)]
                  IN  /\ res[k].actorNr = KeyNumber(o)
                      /\ res[k].rank = IF o.props.rank.has THEN o.props.rank.v ELSE 0
                      /\ res[k].kd = IF o.props.kd.has THEN o.props.kd.v ELSE 0
                      /\ res[k].team = IF o.props.teamNumber.has
                                       THEN o.props.teamNumber.v ELSE 0
                      /\ res[k].kills = IF o.props.current_kills_in_killstreak.has
                                        THEN o.props.current_kills_in_killstreak.v ELSE 0
                      /\ res[k].name = IF o.props.name.has
                                       THEN cleanUsername(o.props.name.v)
                                       ELSE <<"Unknown">>
                      /\ res[k].platform = IF o.props.platform.has
                                           THEN o.props.platform.v ELSE "Unknown"

\* C13 witness: a response with an actor-number entry that has properties, one
\* that has none and an entry with another key has been decoded
C13_Witness ==
    /\ call.fn = "JoinGame"
    /\ Len(call.arg) = 2
    /\ call.arg[1].type = "string"
    /\ call.arg[2].type = "int32" /\ call.arg[2].props.rank.has
    /\ Len(call.result) = 1

\* C14: when the auth-code fetch fails while a joinRoom call is pending, that
\* call fails with the fetch error: it is neither left pending nor failed by
\* the timeout later, and it is not resolved.
C14_FetchFailureFailsTheJoin ==
    \A j \in DOMAIN joins :
        joins[j].fetchFailed => joins[j].state = "fetchError"

\* the joinRoom call that channel s belongs to: a lobby channel's own call, a
\* game channel's the call of the lobby channel that handed over to it
JoinOf(s) ==
    IF sockets[s].kind = "lobby" THEN sockets[s].origin
    ELSE sockets[sockets[s].origin].origin

\* C15: an unexpected close of a channel is fatal to the session: no joinRoom
\* call is still pending once a channel of that call was closed by the server,
\* and the session does not report itself in a room or in game while its game
\* channel is closed by the server.
C15_UnexpectedCloseIsFatal ==
    /\ \A s \in DOMAIN sockets :
          sockets[s].closedBy = "remote" => joins[JoinOf(s)].state # "pending"
    /\ (bot.gameSocket # 0 /\ sockets[bot.gameSocket].closedBy = "remote")
          => (~bot.isInRoom /\ ~bot.isInGame)

\* C16: a message that cannot be decoded is discarded: the step that delivers
\* it changes no field of the session, sends nothing, leaves the channels, the
\* pending promises, timers and handlers as they are, and the process goes on
\* handling messages.
C16_MalformedMessageIsDiscarded ==
    [][(\E s \in DOMAIN sockets : sockets'[s].malformed # sockets[s].malformed)
       => (/\ bot' = bot /\ sent' = sent
           /\ joins' = joins /\ fetches' = fetches /\ lobbyTimers' = lobbyTimers
           /\ \A s \in DOMAIN sockets : sockets'[s].state = sockets[s].state
           /\ ~crashed')]_vars

\* C17: spawn and leave have an explicit outcome: the management surface answers
\* a spawn or leave request with success only if handling it put the spawn
\* event, or the leave request, on the game channel.
C17_SuccessMeansSent ==
    (reply.op \in {"spawn", "leave"} /\ reply.status = 200) => reply.wired

\* the session is in a room and its game channel is open
InRoom == bot.isInRoom /\ bot.gameSocket # 0 /\ sockets[bot.gameSocket].state = "open"

\* C18: while the session is in a room, a spawn request puts exactly one event,
\* the spawn event, on the game channel and changes nothing else: no field of
\* the session, no channel, promise, timer or suspended handler.
C18_SpawnOnlySendsOneEvent ==
    [][(InRoom /\ reply'.turn # reply.turn /\ reply'.op = "spawn")
       => (/\ Len(sent') = Len(sent) + 1
           /\ SubSeq(sent', 1, Len(sent)) = sent
           /\ sent'[Len(sent')].pkt = "Spawn"
           /\ sent'[Len(sent')].sock = bot.gameSocket
           /\ bot' = bot /\ sockets' = sockets /\ joins' = joins
           /\ fetches' = fetches /\ lobbyTimers' = lobbyTimers
           /\ ~crashed')]_vars

\* C18 witness: two spawn requests in a row were served in a room
C18_Witness ==
    /\ InRoom /\ reply.op = "spawn" /\ Len(sent) >= 2
    /\ sent[Len(sent)].pkt = "Spawn" /\ sent[Len(sent) - 1].pkt = "Spawn"

\* C19: whenever the game-server authenticate request is sent it carries a
\* token that is not empty and is the token of a lobby authenticate response
\* of the same join, one received on the lobby channel that handed over to the
\* game channel the request is sent on.
C19_GameAuthCarriesTokenOfThisJoin ==
    [][(Len(sent') > Len(sent) /\ sent'[Len(sent')].pkt = "GameAuth")
       => (/\ sent'[Len(sent')].arg # ""
           /\ sent'[Len(sent')].arg
                 \in sockets[sockets[sent'[Len(sent')].sock].origin].tokens)]_vars

\* name contains "(#", then four to six digits and nothing else, then ")"
HasRoomId(name) ==
    \E i \in 1..Len(name) : \E n \in 4..6 :
        /\ i + n + 2 <= Len(name)
        /\ name[i] = "(" /\ name[i + 1] = "#" /\ name[i + n + 2] = ")"
        /\ \A k \in (i + 2)..(i + n + 1) : name[k] \in Digits

\* C20: filterRoomsWithIdOnly returns, in their order in the listing and as
\* often as they occur, exactly the room names that contain a room id: "(#",
\* four to six decimal digits, ")".
C20_FilterKeepsRoomsWithId ==
    call.fn = "filterRoomsWithIdOnly" =>
        /\ call.result = SelectSeq(call.arg, HasRoomId)
        /\ \A k \in DOMAIN call.result : HasRoomId(call.result[k])

\* C20 witness: of a room with a five-digit id after its name and a room whose
\* id has seven digits, only the first passed
C20_Witness ==
    /\ call.fn = "filterRoomsWithIdOnly"
    /\ call.arg = << <<"a", " ", "(", "#", "1", "2", "1", "2", "1", ")">>,
                     <<"(", "#", "1", "2", "1", "2", "1", "2", "1", ")">> >>
    /\ call.result = << call.arg[1] >>

\* C21: the lobby authenticate request is sent once per session handshake: on
\* every lobby channel at most one authenticate request is ever sent, whatever
\* handshake-init packets arrive in later phases.
C21_LobbyAuthOncePerHandshake ==
    \A s \in DOMAIN sockets :
        sockets[s].kind = "lobby" => Count(s, "LobbyAuth") <= 1

\* a session with a channel that is open
HasOpenChannel(ss) == \E s \in DOMAIN ss : ss[s].state = "open"

\* C22: sessions are independent: an event addressed to one bot changes no
\* field, channel, promise, timer, suspended handler or outbound packet of the
\* other bot, and does not end the other bot's session while that session has
\* a channel open.
C22_SessionsAreIndependent ==
    [][/\ steps' # steps =>
            /\ peer' = peer
            /\ HasOpenChannel(peer.sockets) => ~crashed'
       /\ peer'.steps # peer.steps =>
            /\ <<bot, sockets, joins, lobbyTimers, fetches, sent, lastEnum>>'
                  = <<bot, sockets, joins, lobbyTimers, fetches, sent, lastEnum>>
            /\ HasOpenChannel(sockets) => ~crashed']_vars

\* C23: the opaque handshake artifact is sent once per game handshake at a fixed
\* point: every one on the wire directly follows a join-room-with-properties
\* request on the same game channel, and no game channel carries two.
C23_OpaqueOnceAfterJoinRoom ==
    /\ \A i \in DOMAIN sent :
          sent[i].pkt = "Opaque" =>
              /\ i > 1
              /\ sent[i - 1].pkt = "JoinRoomWithProperties"
              /\ sent[i - 1].sock = sent[i].sock
    /\ \A g \in DOMAIN sockets : Count(g, "Opaque") <= 1

\* join-from-lobby requests sent so far
JoinsFromLobby(log) == Cardinality({i \in DOMAIN log : log[i].pkt = "JoinGame"})

\* C24: a lobby authenticate response handled while no target room is set
\* records the token and schedules nothing, and from then on, for as long as no
\* target room is set, no join-from-lobby request is scheduled or sent and no
\* game channel is opened, whatever arrives on the lobby channel.
C24_NoTargetRoomStopsAtLobby ==
    [][/\ (\E l \in DOMAIN sockets : sockets'[l].idleAuth /\ ~sockets[l].idleAuth)
            => (bot'.authToken # "" /\ lobbyTimers' = lobbyTimers)
       /\ (/\ \E l \in DOMAIN sockets : sockets[l].idleAuth
           /\ bot.gameRoomName = "" /\ bot'.gameRoomName = "")
            => (/\ lobbyTimers' <= lobbyTimers
                /\ JoinsFromLobby(sent') = JoinsFromLobby(sent)
                /\ Len(sockets') = Len(sockets))]_vars

\* C25: codec round trip: for every value of the tests (scalars, strings, byte
\* arrays, arrays, object arrays, maps, vectors, nested) decoding the encoding
\* succeeds, gives the value back, non-finite floats bit for bit, and consumes
\* exactly the encoded bytes.
C25_CodecRoundTrip ==
    call.fn = "roundTrip" =>
        /\ call.result.ok
        /\ call.result.v = call.arg
        /\ call.result.bytesConsumed = Len(call.bytes)

\* C25 witness: an object array of a NaN and a string with a two-byte character
\* went through the codec
C25_Witness ==
    /\ call.fn = "roundTrip"
    /\ call.arg = Value("objectArray", <<Value("float", NaN32), Value("string", <<97, 233>>)>>)
    /\ Len(call.bytes) = 14
    /\ call.result.ok

\* the values directly inside a value
Children(x) ==
    CASE x[1] = "array" -> x[2].elts
      [] x[1] = "objectArray" -> x[2]
      [] x[1] = "map" -> Flatten(x[2])
      [] OTHER -> <<>>

\* a value nests its containers no deeper than depth
RECURSIVE DepthWithin(_, _)
DepthWithin(x, depth) ==
    x[1] \in {"array", "objectArray", "map"} =>
        /\ depth > 0
        /\ \A i \in DOMAIN Children(x) : DepthWithin(Children(x)[i], depth - 1)

\* no container of a value has more than count elements or pairs
RECURSIVE CountWithin(_, _)
CountWithin(x, count) ==
    x[1] \in {"array", "objectArray", "map"} =>
        /\ (IF x[1] = "array" THEN Len(x[2].elts) ELSE Len(x[2])) <= count
        /\ \A i \in DOMAIN Children(x) : CountWithin(Children(x)[i], count)

\* C26: the decoder fails closed: decoding a buffer either returns a decode
\* error or a value whose containers are within the maximum nesting depth and
\* the maximum element count, read from within the buffer.
C26_DecoderFailsClosed ==
    call.fn = "decode" =>
        IF call.result.ok
        THEN /\ DepthWithin(call.result.v, MaxDepth)
             /\ CountWithin(call.result.v, MaxCount)
             /\ call.result.bytesConsumed <= Len(call.arg)
        ELSE call.result.error = "DecodeError"

\* C26 witness: hash tables nested one level deeper than the maximum were
\* refused
C26_Witness ==
    /\ call.fn = "decode"
    /\ call.arg = NestBytes(MaxDepth)
    /\ ~call.result.ok

\* the packets a step appends to the log, and their names
NewPackets == SubSeq(sent', Len(sent) + 1, Len(sent'))

Names(q) == [i \in DOMAIN q |-> q[i].pkt]

JoinedNow == bot'.alreadyJoined /\ ~bot.alreadyJoined

\* C27: the side effects of the assigned-actor-number trigger come in a fixed
\* order.  Nothing of them happens before the auth-code fetch of the trigger has
\* completed: a step that completes no fetch sends no join-notify, auth-code or
\* presence event and does not mark the session joined.  The step that completes
\* the fetch records the actor number of that trigger, then sends join-notify,
\* then the auth-code event, whose entity id is made of that actor number, then
\* (optionally) the presence events, and marks the session joined only after
\* them.
C27_ActorTriggerOrder ==
    [][IF Len(fetches') < Len(fetches)
       THEN \E i \in DOMAIN fetches :
               /\ fetches' = RemoveAt(fetches, i)
               /\ Names(NewPackets) \in
                      {<<>>, <<"JoinNotify", "AuthCode">>,
                       <<"JoinNotify", "AuthCode", "PlayerBody", "PlayerBodyNotify">>}
               /\ NewPackets # <<>> =>
                      /\ bot'.lastActorNr = [str |-> TRUE, val |-> fetches[i].p254]
                      /\ NewPackets[2].num = fetches[i].p254 * 1000 + 1
               /\ JoinedNow =>
                      /\ bot'.lastActorNr = [str |-> TRUE, val |-> fetches[i].p254]
                      /\ bot.gameSocket # 0
                      /\ sockets[bot.gameSocket].state = "open" => Len(NewPackets) >= 2
       ELSE /\ ~JoinedNow
            /\ \A k \in DOMAIN NewPackets :
                   NewPackets[k].pkt \notin {"JoinNotify", "AuthCode", "PlayerBody",
                                             "PlayerBodyNotify"}]_vars

\* C27 witness: a trigger carrying actor number 5 was handled while the bot
\* still held another actor number: join-notify, the auth-code event of entity
\* 5001 and the presence events are the last packets, and the session is joined
C27_Witness ==
    /\ bot.alreadyJoined
    /\ bot.lastActorNr = [str |-> TRUE, val |-> 5]
    /\ Len(sent) >= 4
    /\ Names(SubSeq(sent, Len(sent) - 3, Len(sent))) =
           <<"JoinNotify", "AuthCode", "PlayerBody", "PlayerBodyNotify">>
    /\ sent[Len(sent) - 2].num = 5001

\* C28: the presence broadcast on entering the room depends on the announce flag
\* as it is at that moment: in every step in which the session becomes joined
\* on an open game channel, join-notify and the auth-code event are sent, and the
\* presence event is sent if and only if showJoinMessageInChat is set.
C28_PresenceIffAnnounceFlag ==
    [][(/\ JoinedNow
        /\ bot.gameSocket # 0
        /\ sockets[bot.gameSocket].state = "open")
       => /\ Len(NewPackets) >= 2
          /\ Names(SubSeq(NewPackets, 1, 2)) = <<"JoinNotify", "AuthCode">>
          /\ (\E k \in DOMAIN NewPackets : NewPackets[k].pkt = "PlayerBody")
                <=> bot.showJoinMessageInChat]_vars

\* C28 witness: the flag was cleared by a PATCH request, and after it the session
\* became joined with join-notify and the auth-code event as its last packets
\* and without any presence event
C28_Witness ==
    /\ reply.op = "patch"
    /\ ~bot.showJoinMessageInChat
    /\ bot.alreadyJoined
    /\ Len(sent) >= 2
    /\ Names(SubSeq(sent, Len(sent) - 1, Len(sent))) = <<"JoinNotify", "AuthCode">>
    /\ \A k \in DOMAIN sent : sent[k].pkt # "PlayerBody"

\* the game sockets that messages of lobby socket l made the bot open
GameChannels(ss, l) ==
    {g \in DOMAIN ss : ss[g].kind = "game" /\ ss[g].origin = l}

\* C29: at most one game channel is opened per join: once a message of a join's
\* lobby channel has recorded a server address and opened the game channel, no
\* later step opens another game channel for that lobby channel or replaces the
\* recorded address by another one.
C29_OneGameChannelPerJoin ==
    [][\A l \in DOMAIN sockets :
          (sockets[l].kind = "lobby" /\ GameChannels(sockets, l) # {}) =>
              /\ GameChannels(sockets', l) = GameChannels(sockets, l)
              /\ bot.serverAddress # "" =>
                     bot'.serverAddress \in {bot.serverAddress, ""}]_vars

\* C30: the join-from-lobby request is scheduled at most once per join: however
\* many authenticate responses with a room listing arrive, the messages of the
\* lobby channel of a join start at most one join-from-lobby timer, and at most
\* one join-from-lobby request is sent on that lobby channel.
C30_JoinFromLobbyOncePerJoin ==
    \A l \in DOMAIN sockets :
        sockets[l].kind = "lobby" =>
            /\ sockets[l].scheduled <= 1
            /\ Count(l, "JoinGame") <= 1

\* C31: every join-from-lobby request that is sent names a non-empty room, the
\* one given to the most recent joinRoom call, whatever was handled between the
\* start of the delayed join timer and its firing.
C31_JoinFromLobbyNamesTargetRoom ==
    [][\A k \in DOMAIN NewPackets :
          NewPackets[k].pkt = "JoinGame" =>
              /\ NewPackets[k].arg # ""
              /\ joins # <<>>
              /\ NewPackets[k].arg = joins[Len(joins)].room]_vars

\* C32: a bot never has more than one lobby channel open and never more than
\* one join in progress: a join-room request made while a joinRoom call is still
\* pending or the bot is in a room opens no channel.
C32_OneLobbyChannelOneJoin ==
    /\ Cardinality({l \in DOMAIN sockets :
                       sockets[l].kind = "lobby" /\ sockets[l].state = "open"}) <= 1
    /\ Cardinality({j \in DOMAIN joins : joins[j].state = "pending"}) <= 1

\* C33: a spawn is only performed while the session is in a room: whenever the
\* spawn endpoint finds isInRoom set and calls spawnPlayer, the game channel
\* exists and is open and the session has completed the join.
C33_SpawnOnlyInRoom ==
    [][(/\ reply'.turn # reply.turn
        /\ reply'.op = "spawn"
        /\ bot.isInRoom)
       => /\ bot.gameSocket # 0
          /\ sockets[bot.gameSocket].state = "open"
          /\ bot.alreadyJoined]_vars

\* the packet a client that never sent anything sends for a call
FreshPacket(l) ==
    CASE l.fn = "OpRaiseEvent" ->
           OpRaiseEvent(NewPhotonClient, l.args[1], l.args[2], l.args[3]).packet
      [] l.fn = "TransferOwnership" ->
           TransferOwnership(NewPhotonClient, l.args[1], l.args[2]).packet
      [] l.fn = "sendEdgeCasePacket" ->
           sendEdgeCasePacket(NewPhotonClient, l.args[1]).packet

OptionsGiven == client.last.args[3][1] # "null"

Caching ==
    IF OptionsGiven THEN client.last.args[3][2].CachingOption
    ELSE EventCaching.DoNotCache

ActorsGiven == OptionsGiven /\ client.last.args[3][2].TargetActors[1] # "null"

GroupGiven == OptionsGiven /\ client.last.args[3][2].InterestGroup # 0

ReceiversGiven ==
    OptionsGiven /\ client.last.args[3][2].Receivers # ReceiverGroup.Others

ContentGiven == client.last.args[2][1] \notin {"null", "undefined"}

CacheOnly ==
    Caching \in {EventCaching.SliceSetIndex, EventCaching.SlicePurgeIndex,
                 EventCaching.SlicePurgeUpToIndex, EventCaching.SliceIncreaseIndex,
                 EventCaching.RemoveFromRoomCacheForActorsLeft}

Sent(k) == MapHas(client.packet.params, k)

AtMostOneAddressing ==
    Cardinality({k \in {"ActorList", "Group", "ReceiverGroup"} : Sent(k)}) <= 1

\* C35 as stated: in every packet sent by OpRaiseEvent at most one of ActorList,
\* Group and ReceiverGroup is present, chosen by the priority target actors,
\* non-zero interest group, receivers other than Others; Cache is present iff
\* the caching option is not DoNotCache, and Data iff the custom content is
\* neither null nor undefined.
C35_AsStated ==
    client.last.fn = "OpRaiseEvent" =>
        /\ AtMostOneAddressing
        /\ Sent("ActorList") <=> ActorsGiven
        /\ Sent("Group") <=> (~ActorsGiven /\ GroupGiven)
        /\ Sent("ReceiverGroup") <=> (~ActorsGiven /\ ~GroupGiven /\ ReceiversGiven)
        /\ Sent("Cache") <=> Caching # EventCaching.DoNotCache
        /\ Sent("Data") <=> ContentGiven

\* C35, amended: in every packet sent by OpRaiseEvent at most one of ActorList,
\* Group and ReceiverGroup is present, and Cache is present iff the caching
\* option is not DoNotCache.  With a slice option or
\* RemoveFromRoomCacheForActorsLeft the packet carries nothing else, neither
\* event code nor addressing nor data.  Otherwise Data is present iff the custom
\* content is neither null nor undefined and ActorList iff target actors are
\* given; with RemoveFromRoomCache neither Group nor ReceiverGroup is sent, and
\* with any other option they follow the priority target actors, non-zero
\* interest group, receivers other than Others.
C35_RaiseEventParameters ==
    client.last.fn = "OpRaiseEvent" =>
        /\ AtMostOneAddressing
        /\ Sent("Cache") <=> Caching # EventCaching.DoNotCache
        /\ IF CacheOnly
           THEN \A k \in {"Code", "Data", "ActorList", "Group", "ReceiverGroup",
                           "EventForward"} : ~Sent(k)
           ELSE /\ Sent("Code")
                /\ Sent("Data") <=> ContentGiven
                /\ Sent("ActorList") <=> ActorsGiven
                /\ IF Caching = EventCaching.RemoveFromRoomCache
                   THEN ~Sent("Group") /\ ~Sent("ReceiverGroup")
                   ELSE /\ Sent("Group") <=> (~ActorsGiven /\ GroupGiven)
                        /\ Sent("ReceiverGroup") <=>
                              (~ActorsGiven /\ ~GroupGiven /\ ReceiversGiven)

\* C35 witness: an event with target actors, an interest group and receivers
\* All, to be added to the room cache, went out with ActorList and Cache and
\* without Group and ReceiverGroup
C35_Witness ==
    /\ client.last.fn = "OpRaiseEvent"
    /\ ActorsGiven /\ GroupGiven /\ ReceiversGiven
    /\ Caching = EventCaching.AddToRoomCache
    /\ Sent("ActorList") /\ Sent("Cache")
    /\ ~Sent("Group") /\ ~Sent("ReceiverGroup")

\* C36: convertToPhotonType maps an empty array to an empty object array, an
\* array of integers to an integer array, an array whose first element is a
\* string to a string array, and any other array to the object array of its
\* converted elements.
C36_ArrayConversion ==
    (call.fn = "convertToPhotonType" /\ call.arg[1] = "array") =>
        LET a == call.arg[2]
            r == call.result
        IN  IF a = <<>> THEN r = Value("objectArray", <<>>)
            ELSE IF \A i \in DOMAIN a : a[i][1] = "integer"
            THEN /\ r[1] = "array" /\ r[2].et = "integer"
                 /\ r[2].elts = [i \in DOMAIN a |-> Value("integer", a[i][2])]
            ELSE IF a[1][1] = "string"
            THEN r[1] = "array" /\ r[2].et = "string" /\ Len(r[2].elts) = Len(a)
            ELSE /\ r[1] = "objectArray"
                 /\ r[2] = [i \in DOMAIN a |-> convertToPhotonType(a[i])]

====
